---- MODULE Spec2Model ----
(***************************************************************************)
(* Build Assessment Engine of tensorforge: concept-mastery tracker,        *)
(* structural validator / outcome scorer and adaptive hint generator.      *)
(*                                                                         *)
(* Scores are fixed-point numbers in thousandths (0.95 is 950).  A score   *)
(* divided by an attempt count is kept as an exact fraction [num, den]     *)
(* and compared with a threshold by cross-multiplication.                  *)
(***************************************************************************)
EXTENDS Integers, Sequences, FiniteSets, TLC

VARIABLES
    player_progress,   \* PlayerProgress record shared by the mastery tracker
    call,              \* last tracker call: arguments and locals of the handler
    pc,                \* racing requests: position of each request
    req,               \* racing requests: arguments of each request
    loc,               \* racing requests: locals (current_mastery, new_mastery)
    computation_graph, \* TensorForgeSimulationEngine.computation_graph
    request,           \* simulate_build request: build and level id
    outcome,           \* what simulate_build gave its caller
    hint_request,      \* generate_hint request: analysis, level id, hint level
    hint               \* the Hint generate_hint returned

vars == <<player_progress, call, pc, req, loc,
          computation_graph, request, outcome, hint_request, hint>>

MasteryVars == <<player_progress, call>>

RaceVars == <<pc, req, loc>>

SimVars == <<computation_graph, request, outcome>>

HintVars == <<hint_request, hint>>

(***************************************************************************)
(* Bounds and input sets                                                   *)
(***************************************************************************)
MaxAttempts == 4

Attempts == (0 - 1)..MaxAttempts

Scores == {0 - 100, 0, 475, 699, 700, 849, 850, 949, 950, 1000, 1400, 1900, 2850}

Concepts == {"neural_networks", "training"}

Max(a, b) == IF a >= b THEN a ELSE b

(***************************************************************************)
(* models/game_models.py: MasteryLevel                                     *)
(***************************************************************************)
NOVICE == [enum |-> "MasteryLevel", value |-> "novice"]

LEARNING == [enum |-> "MasteryLevel", value |-> "learning"]

PROFICIENT == [enum |-> "MasteryLevel", value |-> "proficient"]

EXPERT == [enum |-> "MasteryLevel", value |-> "expert"]

MasteryLevel == {NOVICE, LEARNING, PROFICIENT, EXPERT}

(***************************************************************************)
(* A Python dict: a sequence of [k, v] entries in insertion order, keys    *)
(* unique.                                                                 *)
(***************************************************************************)
DictKeys(d) == {d[i].k : i \in 1..Len(d)}

DictHas(d, key) == key \in DictKeys(d)

DictGet(d, key, default) ==
    IF DictHas(d, key)
    THEN (CHOOSE e \in {d[i] : i \in 1..Len(d)} : e.k = key).v
    ELSE default

DictSet(d, key, val) ==
    IF DictHas(d, key)
    THEN [i \in 1..Len(d) |-> IF d[i].k = key THEN [k |-> key, v |-> val] ELSE d[i]]
    ELSE Append(d, [k |-> key, v |-> val])

(***************************************************************************)
(* core/education/progress.py: ConceptTracker                              *)
(***************************************************************************)
ExpertThreshold == 950

ProficientThreshold == 850

LearningThreshold == 700

\* level_values.get(level, 0)
_mastery_level_value(level) ==
    IF level = NOVICE THEN 0
    ELSE IF level = LEARNING THEN 1
    ELSE IF level = PROFICIENT THEN 2
    ELSE IF level = EXPERT THEN 3
    ELSE 0

assess_concept_mastery(pp, concept) ==
    DictGet(pp.concept_mastery, concept, NOVICE)

\* mutant: the penalty divides by attempts instead of attempts - 1
mastery_score_by_attempts(performance_score, attempts) ==
    IF attempts > 1
    THEN [num |-> performance_score, den |-> Max(1, attempts)]
    ELSE [num |-> performance_score, den |-> 1]

\* performance_score * (1.0 / max(1, attempts - 1)) if attempts > 1 else performance_score
mastery_score_of(performance_score, attempts) ==
    IF attempts > 1
    THEN [num |-> performance_score, den |-> Max(1, attempts - 1)]
    ELSE [num |-> performance_score, den |-> 1]

\* mastery_score >= threshold
ScoreAtLeast(ms, threshold) == ms.num >= threshold * ms.den

\* the if / elif chain choosing new_mastery
new_mastery_of(ms, current_mastery) ==
    IF ScoreAtLeast(ms, ExpertThreshold) /\ current_mastery.value # EXPERT.value
    THEN EXPERT
    ELSE IF ScoreAtLeast(ms, ProficientThreshold) THEN PROFICIENT
    ELSE IF ScoreAtLeast(ms, LearningThreshold) THEN LEARNING
    ELSE NOVICE

\* mutant: the guard compares with >= instead of >
ShouldWrite_ge(new_mastery, current_mastery) ==
    _mastery_level_value(new_mastery) >= _mastery_level_value(current_mastery)

\* mutant: the guard compares with != instead of >
ShouldWrite_ne(new_mastery, current_mastery) ==
    _mastery_level_value(new_mastery) # _mastery_level_value(current_mastery)

\* "Only advance mastery, don't regress": the guard of the write
ShouldWrite(new_mastery, current_mastery) ==
    _mastery_level_value(new_mastery) > _mastery_level_value(current_mastery)

\* mutant: the new tier is written without the guard
update_concept_mastery_unguarded(pp, concept, performance_score, attempts) ==
    LET current_mastery == assess_concept_mastery(pp, concept)
        ms == mastery_score_of(performance_score, attempts)
        new_mastery == new_mastery_of(ms, current_mastery)
    IN  [pp EXCEPT !.concept_mastery = DictSet(@, concept, new_mastery)]

update_concept_mastery(pp, concept, performance_score, attempts) ==
    LET current_mastery == assess_concept_mastery(pp, concept)
        ms == mastery_score_of(performance_score, attempts)
        new_mastery == new_mastery_of(ms, current_mastery)
    IN  IF ShouldWrite(new_mastery, current_mastery)
        THEN [pp EXCEPT !.concept_mastery = DictSet(@, concept, new_mastery)]
        ELSE pp

track_concept_exposure(pp, concept) ==
    IF ~DictHas(pp.concept_mastery, concept)
    THEN [pp EXCEPT !.concept_mastery = DictSet(@, concept, NOVICE)]
    ELSE pp

\* PlayerProgress(player_id): the dataclass defaults
NewPlayerProgress ==
    [concept_mastery |-> <<>>,
     completed_levels |-> <<>>,
     current_level |-> 1,
     total_playtime |-> 0]

NoCall == [op |-> "none"]

\* ComputationGraph.__init__
NewGraph == [nodes |-> <<>>, execution_order |-> <<>>, intermediate_results |-> <<>>]

NoRequest == [op |-> "none"]

NoOutcome == [op |-> "none"]

NoHintRequest == [op |-> "none"]

NoHint == [op |-> "none"]

MasteryIdle == player_progress = NewPlayerProgress /\ call = NoCall

RaceIdle == pc = <<>> /\ req = <<>> /\ loc = <<>>

SimIdle == computation_graph = NewGraph /\ request = NoRequest /\ outcome = NoOutcome

HintIdle == hint_request = NoHintRequest /\ hint = NoHint

(***************************************************************************)
(* Mastery tracker driven by one caller at a time                          *)
(***************************************************************************)
InitMastery ==
    /\ player_progress = NewPlayerProgress
    /\ call = NoCall
    /\ RaceIdle
    /\ SimIdle
    /\ HintIdle

UpdateConceptMastery ==
    \E concept \in Concepts, performance_score \in Scores, attempts \in Attempts :
        LET current_mastery == assess_concept_mastery(player_progress, concept)
            ms == mastery_score_of(performance_score, attempts)
        IN  /\ player_progress' =
                  update_concept_mastery(player_progress, concept, performance_score, attempts)
            /\ call' = [op |-> "update_concept_mastery",
                        concept |-> concept,
                        performance_score |-> performance_score,
                        attempts |-> attempts,
                        current_mastery |-> current_mastery,
                        mastery_score |-> ms,
                        new_mastery |-> new_mastery_of(ms, current_mastery)]
            /\ UNCHANGED <<RaceVars, SimVars, HintVars>>

TrackConceptExposure ==
    \E concept \in Concepts :
        /\ player_progress' = track_concept_exposure(player_progress, concept)
        /\ call' = [op |-> "track_concept_exposure", concept |-> concept]
        /\ UNCHANGED <<RaceVars, SimVars, HintVars>>

NextMastery == UpdateConceptMastery \/ TrackConceptExposure

SpecMastery == InitMastery /\ [][NextMastery]_vars

(***************************************************************************)
(* Properties of the mastery tracker                                       *)
(***************************************************************************)
\* the tier order novice < learning < proficient < expert
TierRank(level) ==
    CASE level.value = "novice" -> 0
      [] level.value = "learning" -> 1
      [] level.value = "proficient" -> 2
      [] level.value = "expert" -> 3

HigherTier(a, b) == IF TierRank(a) >= TierRank(b) THEN a ELSE b

\* the tier the thresholds give to the fraction num / den
ThresholdTier(num, den) ==
    IF num >= 950 * den THEN EXPERT
    ELSE IF num >= 850 * den THEN PROFICIENT
    ELSE IF num >= 700 * den THEN LEARNING
    ELSE NOVICE

\* C1: over any sequence of update_concept_mastery calls on one progress
\* record, the stored tier of every concept never decreases in the order
\* novice < learning < proficient < expert.
C1_MonotonicMastery ==
    [][\A c \in Concepts :
          TierRank(assess_concept_mastery(player_progress', c))
              >= TierRank(assess_concept_mastery(player_progress, c))]_vars

\* C1 witness: an update that computed a tier below the stored expert tier.
C1_Witness ==
    /\ call.op = "update_concept_mastery"
    /\ call.current_mastery = EXPERT
    /\ call.new_mastery = NOVICE
    /\ assess_concept_mastery(player_progress, call.concept) = EXPERT

\* C9: the effective score is the performance score when attempts <= 1 and
\* performance score / (attempts - 1) otherwise; after the call the stored
\* tier is the higher of the previous tier and the tier the thresholds
\* (0.95 expert, 0.85 proficient, 0.7 learning, else novice) give to it.
C9_UpdateStoresHigherTier ==
    [][call'.op = "update_concept_mastery" =>
          LET den == IF call'.attempts <= 1 THEN 1 ELSE call'.attempts - 1
              num == call'.performance_score
              prev == assess_concept_mastery(player_progress, call'.concept)
          IN  /\ call'.mastery_score.num * den = num * call'.mastery_score.den
              /\ assess_concept_mastery(player_progress', call'.concept)
                    = HigherTier(prev, ThresholdTier(num, den))
              /\ (num = 950 /\ call'.attempts = 1 /\ prev # EXPERT)
                    => assess_concept_mastery(player_progress', call'.concept) = EXPERT]_vars

\* C9 witness: score 0.95 on the first attempt lifted a lower tier to expert.
C9_Witness ==
    /\ call.op = "update_concept_mastery"
    /\ call.performance_score = 950
    /\ call.attempts = 1
    /\ call.current_mastery # EXPERT
    /\ assess_concept_mastery(player_progress, call.concept) = EXPERT

\* the call of the C10 scenario: expert stored, score 0.95, attempts = 3
C10_Scenario ==
    /\ call.op = "update_concept_mastery"
    /\ call.current_mastery = EXPERT
    /\ call.performance_score = 950
    /\ call.attempts = 3

\* C10 as stated: on a concept stored at expert, score 0.95 with attempts = 3
\* yields effective score 0.475, computes the tier learning and leaves the
\* stored tier at expert.
C10_Original ==
    C10_Scenario =>
        /\ call.mastery_score.num * 1000 = 475 * 1000 * call.mastery_score.den
        /\ call.new_mastery = LEARNING
        /\ assess_concept_mastery(player_progress, call.concept) = EXPERT

\* C10 amended: on a concept stored at expert, score 0.95 with attempts = 3
\* yields effective score 0.475, computes the tier novice (0.475 < 0.7) and
\* leaves the stored tier at expert.
C10_ComputesNoviceKeepsExpert ==
    C10_Scenario =>
        /\ call.mastery_score.num * 1000 = 475 * 1000 * call.mastery_score.den
        /\ call.new_mastery = NOVICE
        /\ ThresholdTier(call.mastery_score.num, call.mastery_score.den) = NOVICE
        /\ assess_concept_mastery(player_progress, call.concept) = EXPERT

\* C10 witness: the scenario's call has been handled.
C10_Witness ==
    /\ C10_Scenario
    /\ DictHas(player_progress.concept_mastery, call.concept)

(***************************************************************************)
(* update_concept_mastery called by several requests on one progress       *)
(* record with no lock: line 31 reads, lines 34-43 compute, line 46        *)
(* compares and line 47 writes, each as a step of its own.                 *)
(***************************************************************************)
NumRequests == 2

Requests == 1..NumRequests

RaceConcept == "neural_networks"

RaceScores == {700, 850, 950}

RaceAttempts == {1, 3}

NoArgs == [performance_score |-> 0, attempts |-> 0]

NoLocals == [current_mastery |-> NOVICE, new_mastery |-> NOVICE]

InitRace ==
    /\ player_progress = NewPlayerProgress
    /\ call = NoCall
    /\ pc = [r \in Requests |-> "idle"]
    /\ req = [r \in Requests |-> NoArgs]
    /\ loc = [r \in Requests |-> NoLocals]
    /\ SimIdle
    /\ HintIdle

\* a request enters update_concept_mastery with its arguments
RaceBegin(r) ==
    /\ pc[r] = "idle"
    /\ \E performance_score \in RaceScores, attempts \in RaceAttempts :
           req' = [req EXCEPT ![r] = [performance_score |-> performance_score,
                                      attempts |-> attempts]]
    /\ pc' = [pc EXCEPT ![r] = "line31"]
    /\ loc' = [loc EXCEPT ![r] = NoLocals]
    /\ UNCHANGED <<player_progress, call>>
    /\ UNCHANGED <<SimVars, HintVars>>

\* line 31: current_mastery = self.assess_concept_mastery(player_progress, concept)
RaceRead(r) ==
    /\ pc[r] = "line31"
    /\ loc' = [loc EXCEPT ![r].current_mastery =
                   assess_concept_mastery(player_progress, RaceConcept)]
    /\ pc' = [pc EXCEPT ![r] = "line34"]
    /\ UNCHANGED <<player_progress, call, req>>
    /\ UNCHANGED <<SimVars, HintVars>>

\* lines 34-43: mastery_score and new_mastery from the arguments and the tier read
RaceCompute(r) ==
    /\ pc[r] = "line34"
    /\ loc' = [loc EXCEPT ![r].new_mastery =
                   new_mastery_of(mastery_score_of(req[r].performance_score, req[r].attempts),
                                  loc[r].current_mastery)]
    /\ pc' = [pc EXCEPT ![r] = "line46"]
    /\ UNCHANGED <<player_progress, call, req>>
    /\ UNCHANGED <<SimVars, HintVars>>

\* line 46: the comparison, on the tier read at line 31
RaceCompare(r) ==
    /\ pc[r] = "line46"
    /\ pc' = [pc EXCEPT ![r] =
                 IF ShouldWrite(loc[r].new_mastery, loc[r].current_mastery)
                 THEN "line47" ELSE "idle"]
    /\ UNCHANGED <<player_progress, call, req, loc>>
    /\ UNCHANGED <<SimVars, HintVars>>

\* line 47: player_progress.concept_mastery[concept] = new_mastery
RaceWrite(r) ==
    /\ pc[r] = "line47"
    /\ player_progress' = [player_progress EXCEPT !.concept_mastery =
                               DictSet(@, RaceConcept, loc[r].new_mastery)]
    /\ pc' = [pc EXCEPT ![r] = "idle"]
    /\ UNCHANGED <<call, req, loc>>
    /\ UNCHANGED <<SimVars, HintVars>>

NextRace ==
    \E r \in Requests :
        \/ RaceBegin(r)
        \/ RaceRead(r)
        \/ RaceCompute(r)
        \/ RaceCompare(r)
        \/ RaceWrite(r)

SpecRace == InitRace /\ [][NextRace]_vars

\* C2: when update_concept_mastery requests for one learner and concept race
\* with no lock, no interleaving of their read, compute, compare and write
\* steps ever lowers the stored tier.
C2_NoDowngradeUnderRace ==
    [][TierRank(assess_concept_mastery(player_progress', RaceConcept))
          >= TierRank(assess_concept_mastery(player_progress, RaceConcept))]_vars

(***************************************************************************)
(* Python strings and values                                               *)
(***************************************************************************)
\* the upper-case letters and their lower-case forms
LowerOf ==
    [c \in {"A", "B", "C", "D", "E", "F", "G", "H", "I", "J", "K", "L", "M",
            "N", "O", "P", "Q", "R", "S", "T", "U", "V", "W", "X", "Y", "Z"} |->
        CASE c = "A" -> "a" [] c = "B" -> "b" [] c = "C" -> "c" [] c = "D" -> "d"
          [] c = "E" -> "e" [] c = "F" -> "f" [] c = "G" -> "g" [] c = "H" -> "h"
          [] c = "I" -> "i" [] c = "J" -> "j" [] c = "K" -> "k" [] c = "L" -> "l"
          [] c = "M" -> "m" [] c = "N" -> "n" [] c = "O" -> "o" [] c = "P" -> "p"
          [] c = "Q" -> "q" [] c = "R" -> "r" [] c = "S" -> "s" [] c = "T" -> "t"
          [] c = "U" -> "u" [] c = "V" -> "v" [] c = "W" -> "w" [] c = "X" -> "x"
          [] c = "Y" -> "y" [] c = "Z" -> "z"]

LowerChar(c) == IF c \in DOMAIN LowerOf THEN LowerOf[c] ELSE c

\* str.lower()
RECURSIVE StrLower(_)
StrLower(s) ==
    IF s = "" THEN ""
    ELSE LowerChar(SubSeq(s, 1, 1)) \o StrLower(SubSeq(s, 2, Len(s)))

\* sub in s
StrContains(sub, s) ==
    \E i \in 0..(Len(s) - Len(sub)) : SubSeq(s, i + 1, i + Len(sub)) = sub

\* "; ".join(parts)
RECURSIVE StrJoin(_, _)
StrJoin(sep, parts) ==
    IF parts = <<>> THEN ""
    ELSE IF Len(parts) = 1 THEN parts[1]
    ELSE parts[1] \o sep \o StrJoin(sep, Tail(parts))

\* f"{score:.1%}" of a score in thousandths
Percent(score) == ToString(score \div 10) \o "." \o ToString(score % 10) \o "%"

\* a value of a component mapping: a string, a non-string, or no such key
PyStr(s) == [t |-> "str", s |-> s]

PyInt(n) == [t |-> "int", n |-> n]

PyAbsent == [t |-> "absent"]

\* comp.get("id", comp.get("name", default))
GetIdOrName(comp, default) ==
    IF comp.id.t # "absent" THEN comp.id
    ELSE IF comp.name.t # "absent" THEN comp.name
    ELSE PyStr(default)

\* comp.get(key, default) for the keys read with a string default
GetOr(value, default) == IF value.t # "absent" THEN value ELSE PyStr(default)

\* None is <<>>, any other value v is <<v>>
None == <<>>

Some(v) == <<v>>

(***************************************************************************)
(* core/engine/simulation.py: validate_build                               *)
(***************************************************************************)
ValidationIssue(type, component_id, message, severity, issue_hint) ==
    [type |-> type, component_id |-> component_id, message |-> message,
     severity |-> severity, hint |-> issue_hint]

Raised(exc, text) == [raised |-> TRUE, exc |-> exc, text |-> text]

_get_required_components(level_id) ==
    CASE level_id = 1 -> <<"neural_layer">>
      [] level_id = 2 -> <<"neural_layer", "activation">>
      [] level_id = 3 -> <<"neural_layer", "tensor_add", "tensor_multiply">>
      [] level_id = 4 -> <<"neural_layer", "activation", "dense_layer">>
      [] OTHER -> <<>>

\* lines 114-119: the lower-cased id of every component; comp_id.lower()
\* raises AttributeError on an id that is not a string
ComponentIdsRaise(components) ==
    \E i \in 1..Len(components) : GetIdOrName(components[i], "").t # "str"

\* mutant: the ids are compared as written, without lower()
ComponentIds_not_lowered(components) ==
    [i \in 1..Len(components) |-> GetIdOrName(components[i], "").s]

ComponentIds(components) ==
    [i \in 1..Len(components) |-> StrLower(GetIdOrName(components[i], "").s)]

\* line 122: not any(required.lower() in comp_id for comp_id in component_ids)
RequiredMissing(required, component_ids) ==
    ~ \E i \in 1..Len(component_ids) : StrContains(StrLower(required), component_ids[i])

\* lines 121-129
RequiredIssues(required_components, component_ids) ==
    LET missing == SelectSeq(required_components,
                             LAMBDA r : RequiredMissing(r, component_ids))
    IN  [i \in 1..Len(missing) |->
            ValidationIssue("missing_required_component",
                            Some(missing[i]),
                            "Missing required component: " \o missing[i],
                            "error",
                            Some("Try adding a " \o missing[i] \o " component to your network"))]

\* mutant: has_layer is never set
RECURSIVE SequenceScan_no_tracking(_, _, _)
SequenceScan_no_tracking(components, i, has_layer) ==
    IF i > Len(components) THEN <<>>
    ELSE LET comp == components[i]
             comp_type == GetOr(comp.type, "")
             comp_id == GetIdOrName(comp, "").s
         IN  IF StrContains("layer", StrLower(comp_id)) \/ comp_type = PyStr("layer")
             THEN SequenceScan_no_tracking(components, i + 1, has_layer)
             ELSE IF StrContains("activation", StrLower(comp_id)) /\ ~has_layer
             THEN <<ValidationIssue("sequence_error",
                                    Some(comp_id),
                                    "Activation function should come after a layer",
                                    "warning",
                                    Some("Try placing the activation function after a neural layer"))>>
                  \o SequenceScan_no_tracking(components, i + 1, has_layer)
             ELSE SequenceScan_no_tracking(components, i + 1, has_layer)

\* lines 219-237: the scan with has_layer, from component i on
RECURSIVE SequenceScan(_, _, _)
SequenceScan(components, i, has_layer) ==
    IF i > Len(components) THEN <<>>
    ELSE LET comp == components[i]
             comp_type == GetOr(comp.type, "")
             comp_id == GetIdOrName(comp, "").s
         IN  IF StrContains("layer", StrLower(comp_id)) \/ comp_type = PyStr("layer")
             THEN SequenceScan(components, i + 1, TRUE)
             ELSE IF StrContains("activation", StrLower(comp_id)) /\ ~has_layer
             THEN <<ValidationIssue("sequence_error",
                                    Some(comp_id),
                                    "Activation function should come after a layer",
                                    "warning",
                                    Some("Try placing the activation function after a neural layer"))>>
                  \o SequenceScan(components, i + 1, has_layer)
             ELSE SequenceScan(components, i + 1, has_layer)

_validate_component_sequence(components) ==
    IF components = <<>> THEN <<>> ELSE SequenceScan(components, 1, FALSE)

MinComponentsLevel2 == 3

MinComponentsLevel4 == 4

_validate_level_specific_requirements(build, level_id) ==
    IF level_id = 2
    THEN IF Len(build.components) < MinComponentsLevel2
         THEN <<ValidationIssue("insufficient_complexity",
                                None,
                                "Need at least 3 components, you have "
                                    \o ToString(Len(build.components)),
                                "warning",
                                Some("Add more components to make your network more sophisticated"))>>
         ELSE <<>>
    ELSE IF level_id = 4
    THEN IF Len(build.components) < MinComponentsLevel4
         THEN <<ValidationIssue("insufficient_complexity",
                                None,
                                "Mini-boss level requires at least 4 components for full credit",
                                "warning",
                                None)>>
         ELSE <<>>
    ELSE <<>>

ValidationResult(is_valid, issues, suggestions) ==
    [raised |-> FALSE, is_valid |-> is_valid, issues |-> issues, suggestions |-> suggestions]

\* lines 137-138
IsValid(issues) == ~ \E i \in 1..Len(issues) : issues[i].severity = "error"

\* mutant: the hints of error issues are kept as well
Suggestions_with_errors(issues) ==
    LET kept == SelectSeq(issues, LAMBDA issue : issue.hint # None /\ issue.hint # Some(""))
    IN  [i \in 1..Len(kept) |-> kept[i].hint[1]]

Suggestions(issues) ==
    LET kept == SelectSeq(issues,
                          LAMBDA issue : issue.hint # None /\ issue.hint # Some("")
                                         /\ issue.severity # "error")
    IN  [i \in 1..Len(kept) |-> kept[i].hint[1]]

\* the issue of an empty build, lines 101-107
MissingComponentsIssue ==
    ValidationIssue("missing_components",
                    None,
                    "No components added to the network",
                    "error",
                    Some("Try adding some components from the library!"))

\* mutant: the empty-build issue is recorded without the early return
validate_build_no_return(build, level_id) ==
    IF ComponentIdsRaise(build.components)
    THEN Raised("AttributeError", "'int' object has no attribute 'lower'")
    ELSE LET issues == (IF Len(build.components) = 0 THEN <<MissingComponentsIssue>> ELSE <<>>)
                       \o RequiredIssues(_get_required_components(level_id),
                                         ComponentIds(build.components))
                       \o _validate_component_sequence(build.components)
                       \o _validate_level_specific_requirements(build, level_id)
         IN  ValidationResult(IsValid(issues), issues, Suggestions(issues))

validate_build(build, level_id) ==
    IF Len(build.components) = 0
    THEN ValidationResult(FALSE, <<MissingComponentsIssue>>, <<>>)
    ELSE IF ComponentIdsRaise(build.components)
    THEN Raised("AttributeError", "'int' object has no attribute 'lower'")
    ELSE LET issues == RequiredIssues(_get_required_components(level_id),
                                      ComponentIds(build.components))
                       \o _validate_component_sequence(build.components)
                       \o _validate_level_specific_requirements(build, level_id)
         IN  ValidationResult(IsValid(issues), issues, Suggestions(issues))

(***************************************************************************)
(* core/components/registry.py: the implementations of the catalog         *)
(***************************************************************************)
\* a 1-D tensor: its length, the data it was derived from and the
\* components applied so far (nn.Linear draws fresh random weights, so the
\* numbers themselves are not determined by the build)
Tensor(size, data, applied) == [size |-> size, data |-> data, applied |-> applied]

\* the ids registered by _register_core_components
RegisteredIds ==
    {"neural_layer", "activation_relu", "tensor_add", "tensor_multiply",
     "dense_layer", "dropout"}

\* implementation(current_data, **params) for a registered id
Implementation(component_id, x, params) ==
    CASE component_id \in {"neural_layer", "dense_layer"} ->
            [raised |-> FALSE,
             value |-> Tensor(Max(2, x.size \div 2), x.data, Append(x.applied, component_id))]
      [] component_id \in {"activation_relu", "dropout"} ->
            [raised |-> FALSE,
             value |-> Tensor(x.size, x.data, Append(x.applied, component_id))]
      [] component_id \in {"tensor_add", "tensor_multiply"} ->
            IF "y" \in params
            THEN [raised |-> FALSE,
                  value |-> Tensor(x.size, x.data, Append(x.applied, component_id))]
            ELSE Raised("TypeError",
                        "ComponentRegistry._" \o component_id
                            \o "_impl() missing 1 required positional argument: 'y'")

(***************************************************************************)
(* core/engine/simulation.py: ComputationGraph                             *)
(***************************************************************************)
ComponentNode(node_id, component_id, parameters) ==
    [id |-> node_id, component_id |-> component_id, parameters |-> parameters]

add_component(graph, component_id, node_id, parameters) ==
    [graph EXCEPT !.nodes = Append(@, ComponentNode(node_id, component_id, parameters)),
                  !.execution_order = Append(@, node_id)]

clear(graph) == NewGraph

_get_node(graph, node_id) ==
    LET hits == SelectSeq(graph.nodes, LAMBDA n : n.id = node_id)
    IN  IF hits = <<>> THEN None ELSE Some(hits[1])

\* lines 54-71, from position i of execution_order on
RECURSIVE ExecuteFrom(_, _, _)
ExecuteFrom(graph, i, current_data) ==
    IF i > Len(graph.execution_order)
    THEN [raised |-> FALSE, graph |-> graph]
    ELSE LET node_id == graph.execution_order[i]
             found == _get_node(graph, node_id)
         IN  IF found = None
             THEN ExecuteFrom(graph, i + 1, current_data)
             ELSE LET node == found[1]
                  IN  IF node.component_id \notin RegisteredIds
                      THEN [raised |-> TRUE, exc |-> "ValueError",
                            text |-> "No implementation found for component: "
                                         \o node.component_id,
                            graph |-> graph]
                      ELSE LET r == Implementation(node.component_id, current_data,
                                                   node.parameters)
                           IN  IF r.raised
                               THEN [raised |-> TRUE, exc |-> "RuntimeError",
                                     text |-> "Error executing component "
                                                  \o node.component_id \o ": " \o r.text,
                                     graph |-> graph]
                               ELSE ExecuteFrom(
                                        [graph EXCEPT !.intermediate_results =
                                             DictSet(@, node_id, r.value)],
                                        i + 1, r.value)

\* mutant: the trace is started without the input entry
execute_without_input(graph, input_data) ==
    ExecuteFrom([graph EXCEPT !.intermediate_results = <<>>], 1, input_data)

\* returns the graph after the call; intermediate_results is the trace
execute(graph, input_data) ==
    ExecuteFrom([graph EXCEPT !.intermediate_results = <<[k |-> "input", v |-> input_data]>>],
                1, input_data)

(***************************************************************************)
(* core/engine/simulation.py: scoring                                      *)
(***************************************************************************)
_generate_input_data(level_id) ==
    IF level_id = 2 THEN Tensor(4, <<1000, 2000, 3000, 4000>>, <<>>)
    ELSE IF level_id = 3 THEN Tensor(3, <<500, 1500, 2500>>, <<>>)
    ELSE Tensor(4, <<1000, 500, 800, 300>>, <<>>)

Min(a, b) == IF a <= b THEN a ELSE b

Evaluated(success, score, message, visual_data) ==
    [raised |-> FALSE, success |-> success, score |-> score, message |-> message,
     visual_data |-> visual_data]

\* lines 293-303: the class a component adds to component_types, if any
ComponentClass(comp) ==
    LET comp_id == StrLower(GetIdOrName(comp, "").s)
    IN  IF StrContains("neural", comp_id) THEN {"neural"}
        ELSE IF StrContains("dense", comp_id) THEN {"dense"}
        ELSE IF StrContains("activation", comp_id) THEN {"activation"}
        ELSE IF StrContains("dropout", comp_id) THEN {"dropout"}
        ELSE {}

ComponentTypes(build) ==
    UNION {ComponentClass(build.components[i]) : i \in 1..Len(build.components)}

Level2Threshold == 850

Level3Threshold == 750

Level4Threshold == 900

GenericThreshold == 800

ScoreCeiling == 950

GenericCeiling == 900

\* first: the element of component_types that set iteration yields first
_evaluate_level_2(results, build, first) ==
    LET component_types == ComponentTypes(build)
        bonus == (IF "neural" \in component_types THEN 150 ELSE 0)
                 + (IF "activation" \in component_types THEN 100 ELSE 0)
                 + (IF "dense" \in component_types THEN 100 ELSE 0)
                 + (IF Cardinality(component_types) >= 3 THEN 50 ELSE 0)
        score == Min(ScoreCeiling, 600 + bonus)
        success == score >= Level2Threshold
        missing == (IF "neural" \notin component_types THEN <<"Neural Layer">> ELSE <<>>)
                   \o (IF "activation" \notin component_types
                       THEN <<"Activation Function">> ELSE <<>>)
        message == IF success
                   THEN "Excellent network! Your " \o ToString(Len(build.components))
                            \o "-layer network achieved " \o Percent(score) \o " efficiency."
                   ELSE "Network needs improvement. Consider adding: "
                            \o StrJoin(", ", missing)
                            \o ". Current efficiency: " \o Percent(score)
    IN  \* line 330: dict(component_types) on a set of strings
        IF component_types # {}
        THEN Raised("ValueError",
                    "dictionary update sequence element #0 has length "
                        \o ToString(Len(first)) \o "; 2 is required")
        ELSE Evaluated(success, score, message,
                       Some([efficiency |-> score,
                             component_breakdown |-> {},
                             network_depth |-> Len(build.components)]))

\* mutant: level 3 succeeds only above its threshold
_evaluate_level_3_strict(results, build) ==
    LET score == IF Len(build.components) >= 3 THEN 750 ELSE 500
        success == score > Level3Threshold
    IN  Evaluated(success, score,
                  IF success THEN "Pattern detection network built successfully!"
                  ELSE "Try adding more components for better pattern recognition.",
                  Some([pattern_score |-> score]))

_evaluate_level_3(results, build) ==
    LET score == IF Len(build.components) >= 3 THEN 750 ELSE 500
        success == score >= Level3Threshold
    IN  Evaluated(success, score,
                  IF success THEN "Pattern detection network built successfully!"
                  ELSE "Try adding more components for better pattern recognition.",
                  Some([pattern_score |-> score]))

\* any("dropout" in comp.get("id", "").lower() for comp in build.components)
AnyIdContains(sub, build) ==
    \E i \in 1..Len(build.components) :
        StrContains(sub, StrLower(GetOr(build.components[i].id, "").s))

_evaluate_mini_boss_1(results, build) ==
    LET base_score == 700
                      + (IF Len(build.components) >= 4 THEN 100 ELSE 0)
                      + (IF Len(build.components) >= 5 THEN 50 ELSE 0)
                      + (IF AnyIdContains("dropout", build) THEN 80 ELSE 0)
                      + (IF AnyIdContains("dense", build) THEN 70 ELSE 0)
        score == Min(ScoreCeiling, base_score)
        success == score >= Level4Threshold
    IN  Evaluated(success, score,
                  IF success THEN "Mini-boss conquered! Your AI is truly intelligent!"
                  ELSE "Good attempt! Score: " \o Percent(score)
                           \o ". Try adding more advanced components.",
                  Some([mini_boss_score |-> score]))

\* mutant: the generic score is not capped
_evaluate_generic_uncapped(results, build) ==
    LET score == 600 + Len(build.components) * 100
        success == score >= GenericThreshold
    IN  Evaluated(success, score,
                  IF success THEN "Network simulation completed successfully!"
                  ELSE "Try improving your network architecture.",
                  Some([generic_score |-> score]))

_evaluate_generic(results, build) ==
    LET score == Min(GenericCeiling, 600 + Len(build.components) * 100)
        success == score >= GenericThreshold
    IN  Evaluated(success, score,
                  IF success THEN "Network simulation completed successfully!"
                  ELSE "Try improving your network architecture.",
                  Some([generic_score |-> score]))

_evaluate_results(results, level_id, build, first) ==
    IF results = <<>>
    THEN Evaluated(FALSE, 0, "No output generated", Some([empty |-> TRUE]))
    ELSE IF level_id = 2 THEN _evaluate_level_2(results, build, first)
    ELSE IF level_id = 3 THEN _evaluate_level_3(results, build)
    ELSE IF level_id = 4 THEN _evaluate_mini_boss_1(results, build)
    ELSE _evaluate_generic(results, build)

_generate_educational_feedback(build, results, level_id) ==
    LET component_count == Len(build.components)
    IN  (IF component_count = 1
         THEN <<"Great start! Single components are the building blocks of AI.">>
         ELSE IF component_count <= 3
         THEN <<"Nice architecture! Multiple components allow for more sophisticated processing.">>
         ELSE <<"Impressive network depth! Deep networks can learn complex patterns.">>)
        \o (IF level_id = 2
            THEN <<"Remember: each layer transforms the data, making it easier for the next layer to understand.">>
            ELSE IF level_id = 3
            THEN <<"Pattern recognition is at the heart of all AI - your network is learning to find hidden relationships!">>
            ELSE <<>>)

(***************************************************************************)
(* core/engine/simulation.py: simulate_build                               *)
(***************************************************************************)
SimulationResult(success, score, message, visual_data, validation_result, educational_feedback) ==
    [success |-> success, score |-> score, message |-> message,
     visual_data |-> visual_data, validation_result |-> validation_result,
     educational_feedback |-> educational_feedback]

\* what the caller of simulate_build gets: a SimulationResult or an exception
Returned(result) == [op |-> "simulate_build", raised |-> FALSE, result |-> result]

Propagated(exc, text) == [op |-> "simulate_build", raised |-> TRUE, exc |-> exc, text |-> text]

\* line 148
ErrorMessages(validation_result) ==
    LET errors == SelectSeq(validation_result.issues, LAMBDA issue : issue.severity = "error")
    IN  [i \in 1..Len(errors) |-> errors[i].message]

\* component.get("parameters", {}): the names of the keyword arguments
Parameters(component) ==
    IF component.parameters.t = "absent" THEN {} ELSE component.parameters.keys

\* lines 161-171, from component i on (enumerate counts from 0)
RECURSIVE BuildGraphFrom(_, _, _)
BuildGraphFrom(graph, components, i) ==
    IF i > Len(components) THEN graph
    ELSE LET component == components[i]
             comp_id == GetIdOrName(component, "component_" \o ToString(i - 1)).s
             node_id == "node_" \o ToString(i - 1)
         IN  BuildGraphFrom(add_component(graph, comp_id, node_id, Parameters(component)),
                            components, i + 1)

\* mutant: the failure text is left out of the message
SimulationFailed_no_text(graph, text, validation_result) ==
    [graph |-> graph,
     outcome |-> Returned(SimulationResult(FALSE, 0, "Simulation failed", None,
                                           validation_result, <<>>))]

\* lines 195-201
SimulationFailed(graph, text, validation_result) ==
    [graph |-> graph,
     outcome |-> Returned(SimulationResult(FALSE, 0, "Simulation failed: " \o text,
                                           None, validation_result, <<>>))]

\* mutant: the graph of the previous request is not cleared
TryBlock_no_clear(graph, build, level_id, first, validation_result) ==
    LET built == BuildGraphFrom(graph, build.components, 1)
        ex == execute(built, _generate_input_data(level_id))
    IN  IF ex.raised
        THEN SimulationFailed(ex.graph, ex.text, validation_result)
        ELSE LET ev == _evaluate_results(ex.graph.intermediate_results, level_id, build, first)
             IN  IF ev.raised
                 THEN SimulationFailed(ex.graph, ev.text, validation_result)
                 ELSE [graph |-> ex.graph,
                       outcome |-> Returned(SimulationResult(
                                       ev.success, ev.score, ev.message, ev.visual_data,
                                       validation_result,
                                       _generate_educational_feedback(
                                           build, ex.graph.intermediate_results, level_id)))]

\* lines 156-201: the try block, entered with a valid build
TryBlock(graph, build, level_id, first, validation_result) ==
    LET built == BuildGraphFrom(clear(graph), build.components, 1)
        ex == execute(built, _generate_input_data(level_id))
    IN  IF ex.raised
        THEN SimulationFailed(ex.graph, ex.text, validation_result)
        ELSE LET ev == _evaluate_results(ex.graph.intermediate_results, level_id, build, first)
             IN  IF ev.raised
                 THEN SimulationFailed(ex.graph, ev.text, validation_result)
                 ELSE [graph |-> ex.graph,
                       outcome |-> Returned(SimulationResult(
                                       ev.success, ev.score, ev.message, ev.visual_data,
                                       validation_result,
                                       _generate_educational_feedback(
                                           build, ex.graph.intermediate_results, level_id)))]

\* mutant: the graph is cleared before the build is validated
simulate_build_clears_first(graph, build, level_id, first) ==
    LET validation_result == validate_build(build, level_id)
    IN  IF validation_result.raised
        THEN [graph |-> graph,
              outcome |-> Propagated(validation_result.exc, validation_result.text)]
        ELSE IF ~validation_result.is_valid
        THEN [graph |-> clear(graph),
              outcome |-> Returned(SimulationResult(
                              FALSE, 0, StrJoin("; ", ErrorMessages(validation_result)),
                              None, validation_result, <<>>))]
        ELSE TryBlock(graph, build, level_id, first, validation_result)

\* the engine's graph after the call and what the caller gets
simulate_build(graph, build, level_id, first) ==
    LET validation_result == validate_build(build, level_id)
    IN  IF validation_result.raised
        THEN [graph |-> graph,
              outcome |-> Propagated(validation_result.exc, validation_result.text)]
        ELSE IF ~validation_result.is_valid
        THEN [graph |-> graph,
              outcome |-> Returned(SimulationResult(
                              FALSE, 0, StrJoin("; ", ErrorMessages(validation_result)),
                              None, validation_result, <<>>))]
        ELSE TryBlock(graph, build, level_id, first, validation_result)

\* the candidates for the first element set iteration yields at line 330
FirstChoices(build, level_id) ==
    IF level_id # 2 \/ ComponentIdsRaise(build.components) \/ ComponentTypes(build) = {}
    THEN {""}
    ELSE ComponentTypes(build)

(***************************************************************************)
(* Builds submitted to the engine                                          *)
(***************************************************************************)
Entry(id, name, type, parameters) ==
    [id |-> id, name |-> name, type |-> type, parameters |-> parameters]

WithY == [t |-> "dict", keys |-> {"y"}]

NeuralLayer == Entry(PyStr("neural_layer"), PyStr("Neural Layer"), PyStr("layer"), PyAbsent)

ActivationRelu ==
    Entry(PyStr("activation_relu"), PyStr("Activation Function"), PyStr("function"), PyAbsent)

DenseLayer == Entry(PyStr("dense_layer"), PyStr("Dense Layer"), PyStr("layer"), PyAbsent)

Dropout == Entry(PyStr("dropout"), PyStr("Dropout"), PyStr("regularization"), PyAbsent)

TensorAdd == Entry(PyStr("tensor_add"), PyAbsent, PyStr("operation"), WithY)

TensorMultiply == Entry(PyStr("tensor_multiply"), PyAbsent, PyStr("operation"), WithY)

\* tensor_multiply with no second operand among its parameters
TensorMultiplyNoY == Entry(PyStr("tensor_multiply"), PyAbsent, PyStr("operation"), PyAbsent)

\* no "id" key: the "name" key is used in its place
NamedNeuralLayer == Entry(PyAbsent, PyStr("neural_layer"), PyAbsent, PyAbsent)

\* neither "id" nor "name"
Anonymous == Entry(PyAbsent, PyAbsent, PyStr("layer"), PyAbsent)

\* an id that is not a string
NumericId == Entry(PyInt(5), PyAbsent, PyAbsent, PyAbsent)

\* an id the validator matches by substring and the catalog does not hold
CustomActivation == Entry(PyStr("My_Activation_Layer"), PyAbsent, PyAbsent, PyAbsent)

ComponentEntries ==
    {NeuralLayer, ActivationRelu, DenseLayer, Dropout, TensorAdd, TensorMultiply,
     TensorMultiplyNoY, NamedNeuralLayer, Anonymous, NumericId, CustomActivation}

MaxLen == 3

Levels == 1..5

BuildsOver(entries, n) ==
    {[components |-> cs] : cs \in UNION {[1..k -> entries] : k \in 0..n}}

(***************************************************************************)
(* One simulate_build request on a fresh engine                            *)
(***************************************************************************)
InitSim ==
    /\ MasteryIdle
    /\ RaceIdle
    /\ HintIdle
    /\ computation_graph = NewGraph
    /\ request \in {[op |-> "simulate_build", build |-> b, level_id |-> l] :
                        b \in BuildsOver(ComponentEntries, MaxLen), l \in Levels}
    /\ outcome = NoOutcome

SimulateBuild ==
    /\ outcome = NoOutcome
    /\ \E first \in FirstChoices(request.build, request.level_id) :
           \E r \in {simulate_build(computation_graph, request.build,
                                    request.level_id, first)} :
               /\ computation_graph' = r.graph
               /\ outcome' = r.outcome
    /\ UNCHANGED <<request, MasteryVars, RaceVars, HintVars>>

NextSim == SimulateBuild

SpecSim == InitSim /\ [][NextSim]_vars

(***************************************************************************)
(* A long-lived engine serving one simulate_build request after another    *)
(***************************************************************************)
EngineEntries == {NeuralLayer, ActivationRelu, TensorMultiplyNoY}

MaxEngineLen == 2

EngineLevels == {1, 2}

InitEngine ==
    /\ MasteryIdle
    /\ RaceIdle
    /\ HintIdle
    /\ SimIdle

EngineSimulateBuild ==
    /\ \E build \in BuildsOver(EngineEntries, MaxEngineLen), level_id \in EngineLevels :
           \E first \in FirstChoices(build, level_id) :
               \E r \in {simulate_build(computation_graph, build, level_id, first)} :
                   /\ request' = [op |-> "simulate_build", build |-> build,
                                  level_id |-> level_id]
                   /\ computation_graph' = r.graph
                   /\ outcome' = r.outcome
    /\ UNCHANGED <<MasteryVars, RaceVars, HintVars>>

NextEngine == EngineSimulateBuild

SpecEngine == InitEngine /\ [][NextEngine]_vars

(***************************************************************************)
(* One simulate_build request on a fresh engine, longer builds over the    *)
(* catalog's own components                                                *)
(***************************************************************************)
ScoreEntries ==
    {NeuralLayer, ActivationRelu, DenseLayer, Dropout, TensorAdd, TensorMultiply,
     TensorMultiplyNoY}

MaxScoreLen == 4

InitScore ==
    /\ MasteryIdle
    /\ RaceIdle
    /\ HintIdle
    /\ computation_graph = NewGraph
    /\ request \in {[op |-> "simulate_build", build |-> b, level_id |-> l] :
                        b \in BuildsOver(ScoreEntries, MaxScoreLen), l \in Levels}
    /\ outcome = NoOutcome

NextScore == SimulateBuild

SpecScore == InitScore /\ [][NextScore]_vars

(***************************************************************************)
(* Properties of simulate_build                                            *)
(***************************************************************************)
Handled == outcome # NoOutcome

ReturnedResult == Handled /\ ~outcome.raised

\* C3: whatever path produced it (invalid build, execution failure or a
\* level's scoring function), every score simulate_build returns lies in
\* [0.0, 0.95], for every build and level id.
C3_ScoreBounds ==
    ReturnedResult =>
        /\ outcome.result.score >= 0
        /\ outcome.result.score <= 950

\* C3 witness: a level-4 build of four components scored at the ceiling.
C3_Witness ==
    /\ ReturnedResult
    /\ request.level_id = 4
    /\ Len(request.build.components) = 4
    /\ outcome.result.success
    /\ outcome.result.score = 950

\* C4: for a build validate_build reports invalid, simulate_build returns
\* success = false, score 0.0 and the error issues' messages joined as its
\* message, and leaves the computation graph as it was: not cleared, not
\* rebuilt, not executed, so the message is never an execution failure.
C4_InvalidBuildNeverExecuted ==
    [][\A v \in {validate_build(request'.build, request'.level_id)} :
           (~v.raised /\ ~v.is_valid) =>
               /\ ~outcome'.raised
               /\ outcome'.result.success = FALSE
               /\ outcome'.result.score = 0
               /\ outcome'.result.message = StrJoin("; ", ErrorMessages(v))
               /\ ~StrContains("Simulation failed", outcome'.result.message)
               /\ outcome'.result.validation_result = v
               /\ computation_graph' = computation_graph]_vars

\* C4 witness: an invalid build was answered while the graph of an earlier
\* valid build was still in place.
C4_Witness ==
    /\ ReturnedResult
    /\ ~outcome.result.validation_result.is_valid
    /\ outcome.result.score = 0
    /\ computation_graph.nodes # <<>>
    /\ Len(computation_graph.nodes) # Len(request.build.components)

\* C5: simulate_build on a build with no components, at any level, returns
\* success = false and score 0.0 with exactly one issue, of severity error
\* and kind missing_components.
C5_EmptyBuild ==
    (Handled /\ request.build.components = <<>>) =>
        /\ ReturnedResult
        /\ outcome.result.success = FALSE
        /\ outcome.result.score = 0
        /\ Len(outcome.result.validation_result.issues) = 1
        /\ outcome.result.validation_result.issues[1].severity = "error"
        /\ outcome.result.validation_result.issues[1].type = "missing_components"
        /\ ~outcome.result.validation_result.is_valid

\* C5 witness: an empty build was answered at a level that requires components.
C5_Witness ==
    /\ ReturnedResult
    /\ request.build.components = <<>>
    /\ _get_required_components(request.level_id) # <<>>

Level2ScenarioBuild == [components |-> <<NeuralLayer, ActivationRelu, DenseLayer>>]

\* C6: [neural_layer, activation_relu, dense_layer] at level 2 is reported
\* valid with no error issue and is scored success = true, score >= 0.85,
\* with component classes {neural, activation, dense} in the visualization.
C6_Level2Scenario ==
    (Handled /\ request.build = Level2ScenarioBuild /\ request.level_id = 2) =>
        /\ ReturnedResult
        /\ outcome.result.validation_result.is_valid
        /\ outcome.result.success = TRUE
        /\ outcome.result.score >= 850
        /\ outcome.result.visual_data # None
        /\ outcome.result.visual_data[1].component_breakdown
               = {"neural", "activation", "dense"}

\* C7: simulate_build never raises to its caller, whatever the component
\* mappings and the level id.
C7_NeverRaises == Handled => ~outcome.raised

(***************************************************************************)
(* core/education/hints.py: AdaptiveHintSystem.generate_hint               *)
(***************************************************************************)
\* the lower-case letters and their upper-case forms
UpperOf ==
    [c \in {"a", "b", "c", "d", "e", "f", "g", "h", "i", "j", "k", "l", "m",
            "n", "o", "p", "q", "r", "s", "t", "u", "v", "w", "x", "y", "z"} |->
        CASE c = "a" -> "A" [] c = "b" -> "B" [] c = "c" -> "C" [] c = "d" -> "D"
          [] c = "e" -> "E" [] c = "f" -> "F" [] c = "g" -> "G" [] c = "h" -> "H"
          [] c = "i" -> "I" [] c = "j" -> "J" [] c = "k" -> "K" [] c = "l" -> "L"
          [] c = "m" -> "M" [] c = "n" -> "N" [] c = "o" -> "O" [] c = "p" -> "P"
          [] c = "q" -> "Q" [] c = "r" -> "R" [] c = "s" -> "S" [] c = "t" -> "T"
          [] c = "u" -> "U" [] c = "v" -> "V" [] c = "w" -> "W" [] c = "x" -> "X"
          [] c = "y" -> "Y" [] c = "z" -> "Z"]

IsLetter(c) == c \in DOMAIN UpperOf \/ c \in DOMAIN LowerOf

UpperChar(c) == IF c \in DOMAIN UpperOf THEN UpperOf[c] ELSE c

\* str.title(): a letter that follows a letter is lower-cased, any other
\* letter is upper-cased
RECURSIVE TitleFrom(_, _)
TitleFrom(s, after_letter) ==
    IF s = "" THEN ""
    ELSE LET c == SubSeq(s, 1, 1)
         IN  (IF after_letter THEN LowerChar(c) ELSE UpperChar(c))
             \o TitleFrom(SubSeq(s, 2, Len(s)), IsLetter(c))

StrTitle(s) == TitleFrom(s, FALSE)

Hint(content, type, difficulty, visual_highlight) ==
    [op |-> "generate_hint", content |-> content, type |-> type,
     difficulty |-> difficulty, prerequisites |-> <<>>,
     visual_highlight |-> visual_highlight]

MinDifficulty == 1

MaxDifficulty == 5

\* component_names.get(component_id, component_id.title())
ComponentName(component_id) ==
    CASE component_id = "neural_layer" -> "Neural Layer"
      [] component_id = "activation_relu" -> "Activation Function"
      [] component_id = "dense_layer" -> "Dense Layer"
      [] component_id = "dropout" -> "Dropout"
      [] component_id = "tensor_add" -> "Tensor Addition"
      [] component_id = "tensor_multiply" -> "Tensor Multiplication"
      [] OTHER -> StrTitle(component_id)

_generate_missing_component_hint(component_id, difficulty) ==
    LET component_name == ComponentName(component_id)
        content ==
            IF difficulty <= 2
            THEN "Your AI might benefit from including a " \o component_name \o "."
            ELSE IF difficulty <= 4
            THEN "Try adding a " \o component_name \o " component to your network."
            ELSE "You need to add a " \o component_name
                     \o " component. Look for it in the component library."
    IN  Hint(content, "structure", difficulty, Some(component_id))

\* concept_hints.get(concept, [f"Consider the concept of {concept} for this level."])
ConceptHints(concept) ==
    CASE concept = "basic_assembly" ->
            <<"Try dragging a component from the library to get started!",
              "Start by adding some components to build your AI network.",
              "Click and drag components from the left panel into the center area.">>
      [] concept = "network_depth" ->
            <<"Consider adding more components to make your network more sophisticated.",
              "Deeper networks with multiple components often perform better.",
              "Try stacking more layers to give your AI more processing power.">>
      [] concept = "neural_networks" ->
            <<"Every AI needs a brain! Try adding a Neural Layer.",
              "Neural networks need neurons - add a Neural Layer component.",
              "Start with a Neural Layer as the foundation of your AI.">>
      [] concept = "activation" ->
            <<"Your network needs non-linearity - try adding an Activation Function.",
              "Add an Activation Function to help your AI learn complex patterns.",
              "Activation Functions are essential - they help neurons make decisions.">>
      [] OTHER -> <<"Consider the concept of " \o concept \o " for this level.">>

\* hints_list[hint_index] with hint_index counted from 0; a negative index
\* counts from the end of the list
ListIndex(list, index) ==
    IF index >= 0 THEN list[index + 1] ELSE list[Len(list) + index + 1]

_generate_concept_hint(concept, level_id, difficulty) ==
    LET hints_list == ConceptHints(concept)
        hint_index == Min(difficulty - 1, Len(hints_list) - 1)
    IN  Hint(ListIndex(hints_list, hint_index), "concept", difficulty, None)

_generate_connection_hint(connection_issue, difficulty) ==
    LET content ==
            IF difficulty <= 2
            THEN "Check the order of your components - some work better in specific sequences."
            ELSE IF difficulty <= 4
            THEN "Try rearranging your components. Activation functions usually come after layers."
            ELSE "Components have an optimal order: Layer -> Activation -> Layer -> etc."
    IN  Hint(content, "structure", difficulty, None)

Encouragements ==
    <<"You're on the right track! Try fine-tuning your approach.",
      "Great progress! Your AI architecture looks promising.",
      "Almost there! Consider if any components could work better together.",
      "Nice work! Your network structure shows good understanding.",
      "Excellent attempt! Small adjustments might give you that extra boost.">>

\* choice: the position random.choice picks
_generate_encouragement_hint(level_id, difficulty, choice) ==
    Hint(Encouragements[choice], "encouragement", difficulty, None)

\* mutant: conceptual gaps are looked at before missing components
generate_hint_gaps_first(analysis, level_id, hint_level, choice) ==
    LET difficulty == Min(MaxDifficulty,
                          Max(MinDifficulty, hint_level + (analysis.attempt_count - 1)))
    IN  IF analysis.conceptual_gaps # <<>>
        THEN _generate_concept_hint(analysis.conceptual_gaps[1], level_id, difficulty)
        ELSE IF analysis.missing_components # <<>>
        THEN _generate_missing_component_hint(analysis.missing_components[1], difficulty)
        ELSE IF analysis.incorrect_connections # <<>>
        THEN _generate_connection_hint(analysis.incorrect_connections[1], difficulty)
        ELSE _generate_encouragement_hint(level_id, difficulty, choice)

\* mutant: the lower clamp of the difficulty is 0
generate_hint_floor_zero(analysis, level_id, hint_level, choice) ==
    LET difficulty == Min(MaxDifficulty, Max(0, hint_level + (analysis.attempt_count - 1)))
    IN  IF analysis.missing_components # <<>>
        THEN _generate_missing_component_hint(analysis.missing_components[1], difficulty)
        ELSE IF analysis.conceptual_gaps # <<>>
        THEN _generate_concept_hint(analysis.conceptual_gaps[1], level_id, difficulty)
        ELSE IF analysis.incorrect_connections # <<>>
        THEN _generate_connection_hint(analysis.incorrect_connections[1], difficulty)
        ELSE _generate_encouragement_hint(level_id, difficulty, choice)

generate_hint(analysis, level_id, hint_level, choice) ==
    LET difficulty == Min(MaxDifficulty,
                          Max(MinDifficulty, hint_level + (analysis.attempt_count - 1)))
    IN  IF analysis.missing_components # <<>>
        THEN _generate_missing_component_hint(analysis.missing_components[1], difficulty)
        ELSE IF analysis.conceptual_gaps # <<>>
        THEN _generate_concept_hint(analysis.conceptual_gaps[1], level_id, difficulty)
        ELSE IF analysis.incorrect_connections # <<>>
        THEN _generate_connection_hint(analysis.incorrect_connections[1], difficulty)
        ELSE _generate_encouragement_hint(level_id, difficulty, choice)

(***************************************************************************)
(* One generate_hint request                                               *)
(***************************************************************************)
MaxListLen == 2

MaxAttemptCount == 4

MaxHintLevel == 3

SeqsUpTo(S, n) == UNION {[1..k -> S] : k \in 0..n}

MissingIds == {"neural_layer", "activation"}

GapNames == {"complexity", "network_depth", "neural_networks"}

ConnectionIds == {"activation_relu"}

HintAnalysis(missing_components, incorrect_connections, conceptual_gaps, attempt_count) ==
    [missing_components |-> missing_components,
     incorrect_connections |-> incorrect_connections,
     conceptual_gaps |-> conceptual_gaps,
     attempt_count |-> attempt_count,
     time_spent |-> 0,
     previous_hints_used |-> <<>>]

Analyses ==
    {HintAnalysis(m, c, g, a) :
        m \in SeqsUpTo(MissingIds, MaxListLen),
        c \in SeqsUpTo(ConnectionIds, MaxListLen),
        g \in SeqsUpTo(GapNames, MaxListLen),
        a \in (0 - 1)..MaxAttemptCount}

InitHint ==
    /\ MasteryIdle
    /\ RaceIdle
    /\ SimIdle
    /\ hint_request \in {[op |-> "generate_hint", analysis |-> a, level_id |-> l,
                          hint_level |-> h] :
                            a \in Analyses, l \in {1, 2}, h \in (0 - 1)..MaxHintLevel}
    /\ hint = NoHint

\* the positions random.choice can pick when the fallback branch is taken
Choices(analysis) ==
    IF analysis.missing_components = <<>> /\ analysis.conceptual_gaps = <<>>
       /\ analysis.incorrect_connections = <<>>
    THEN 1..Len(Encouragements)
    ELSE {1}

GenerateHint ==
    /\ hint = NoHint
    /\ \E choice \in Choices(hint_request.analysis) :
           hint' = generate_hint(hint_request.analysis, hint_request.level_id,
                                 hint_request.hint_level, choice)
    /\ UNCHANGED <<hint_request, MasteryVars, RaceVars, SimVars>>

NextHint == GenerateHint

SpecHint == InitHint /\ [][NextHint]_vars

(***************************************************************************)
(* Properties of generate_hint                                             *)
(***************************************************************************)
HintGiven == hint # NoHint

\* C8: generate_hint takes the first branch that matches, in the order
\* missing components > conceptual gaps > connection issues > encouragement;
\* with both missing components and conceptual gaps present the hint is the
\* missing-component hint for the first missing component, never a concept
\* hint.
C8_HintPriority ==
    HintGiven =>
        LET a == hint_request.analysis
        IN  /\ a.missing_components # <<>> =>
                  /\ hint.type = "structure"
                  /\ hint.visual_highlight = Some(a.missing_components[1])
                  /\ StrContains(ComponentName(a.missing_components[1]), hint.content)
            /\ (a.missing_components = <<>> /\ a.conceptual_gaps # <<>>) =>
                  /\ hint.type = "concept"
                  /\ hint.visual_highlight = None
                  /\ \E i \in 1..Len(ConceptHints(a.conceptual_gaps[1])) :
                         hint.content = ConceptHints(a.conceptual_gaps[1])[i]
            /\ (a.missing_components = <<>> /\ a.conceptual_gaps = <<>>
                /\ a.incorrect_connections # <<>>) =>
                  /\ hint.type = "structure"
                  /\ hint.visual_highlight = None
            /\ (a.missing_components = <<>> /\ a.conceptual_gaps = <<>>
                /\ a.incorrect_connections = <<>>) =>
                  /\ hint.type = "encouragement"
                  /\ \E i \in 1..Len(Encouragements) : hint.content = Encouragements[i]

\* C8 witness: missing components and conceptual gaps were both present and
\* the hint highlights the first missing component.
C8_Witness ==
    /\ HintGiven
    /\ hint_request.analysis.missing_components # <<>>
    /\ hint_request.analysis.conceptual_gaps # <<>>
    /\ hint.type = "structure"
    /\ hint.visual_highlight = Some(hint_request.analysis.missing_components[1])

(***************************************************************************)
(* Properties of validate_build, read off the ValidationResult that        *)
(* simulate_build hands back                                               *)
(***************************************************************************)
Validation == outcome.result.validation_result

NonEmptyBuild == request.build.components # <<>>

IssuesOfType(issues, type) == SelectSeq(issues, LAMBDA issue : issue.type = type)

\* the id the validator reads for a component: its "id", else its "name"
IdRead(comp) == StrLower(GetIdOrName(comp, "").s)

\* C17: the validity flag is true exactly when no issue has severity error,
\* and the suggestions are the hint texts of the issues whose severity is not
\* error, in issue order (an issue without a hint text contributes none).
C17_ValidityAndSuggestions ==
    ReturnedResult =>
        LET v == Validation
            hinted == SelectSeq(v.issues,
                                LAMBDA issue : issue.severity # "error" /\ issue.hint # None)
        IN  /\ v.is_valid = (\A i \in 1..Len(v.issues) : v.issues[i].severity # "error")
            /\ Len(v.suggestions) = Len(hinted)
            /\ \A i \in 1..Len(hinted) : Some(v.suggestions[i]) = hinted[i].hint

\* C17 witness: a valid level-4 build with two warnings, one carrying a hint
\* and one without, and a single suggestion.
C17_Witness ==
    /\ ReturnedResult
    /\ Validation.is_valid
    /\ Len(Validation.issues) = 2
    /\ Validation.issues[1].hint # None
    /\ Validation.issues[2].hint = None
    /\ Len(Validation.suggestions) = 1

\* C18: for a non-empty build at level L there is exactly one error issue of
\* kind missing_required_component, with a hint, for each required item of L
\* that is no case-insensitive substring of any component id, none for an
\* item that is matched, and a level with no required items yields a valid
\* result.
C18_RequiredComponents ==
    (ReturnedResult /\ NonEmptyBuild) =>
        LET v == Validation
            cs == request.build.components
            required == _get_required_components(request.level_id)
            emitted == IssuesOfType(v.issues, "missing_required_component")
            Matched(r) == \E i \in 1..Len(cs) : StrContains(StrLower(r), IdRead(cs[i]))
            For(r) == SelectSeq(emitted, LAMBDA issue : issue.component_id = Some(r))
        IN  /\ \A k \in 1..Len(required) :
                   Len(For(required[k])) = IF Matched(required[k]) THEN 0 ELSE 1
            /\ \A i \in 1..Len(emitted) :
                   /\ emitted[i].severity = "error"
                   /\ emitted[i].hint # None
                   /\ \E k \in 1..Len(required) : emitted[i].component_id = Some(required[k])
            /\ required = <<>> => v.is_valid

\* C18 witness: a level-3 build that matches one required item and lacks two.
C18_Witness ==
    /\ ReturnedResult
    /\ NonEmptyBuild
    /\ request.level_id = 3
    /\ Len(IssuesOfType(Validation.issues, "missing_required_component")) = 2
    /\ ~Validation.is_valid

IsLayerClass(comp) ==
    StrContains("layer", IdRead(comp)) \/ GetOr(comp.type, "") = PyStr("layer")

IsActivationClass(comp) == ~IsLayerClass(comp) /\ StrContains("activation", IdRead(comp))

\* the positions of the activation-class components no layer-class component precedes
EarlyActivations(cs) ==
    SelectSeq([i \in 1..Len(cs) |-> i],
              LAMBDA i : /\ IsActivationClass(cs[i])
                         /\ ~ \E j \in 1..(i - 1) : IsLayerClass(cs[j]))

\* C19: in submission order, a sequence_error warning is emitted for an
\* activation-class component exactly when no layer-class component comes
\* before it, and sequence errors never make the build invalid.
C19_SequenceWarnings ==
    (ReturnedResult /\ NonEmptyBuild) =>
        LET v == Validation
            cs == request.build.components
            emitted == IssuesOfType(v.issues, "sequence_error")
            early == EarlyActivations(cs)
        IN  /\ Len(emitted) = Len(early)
            /\ \A k \in 1..Len(emitted) :
                   /\ emitted[k].severity = "warning"
                   /\ emitted[k].component_id = Some(GetIdOrName(cs[early[k]], "").s)
            /\ v.is_valid = (IssuesOfType(v.issues, "missing_required_component") = <<>>)

\* C19 witness: one activation ahead of the first layer is flagged, one
\* after it is not, and the build is valid.
C19_Witness ==
    /\ ReturnedResult
    /\ Len(request.build.components) = 3
    /\ IsActivationClass(request.build.components[1])
    /\ IsLayerClass(request.build.components[2])
    /\ IsActivationClass(request.build.components[3])
    /\ Len(IssuesOfType(Validation.issues, "sequence_error")) = 1
    /\ Validation.is_valid

Scored == ~StrContains("Simulation failed", outcome.result.message)

\* C20: a non-empty build of fewer than 3 components at level 2, or fewer
\* than 4 at level 4, gets one insufficient_complexity warning and no other
\* build gets one; the warning does not invalidate the build, so a build of
\* catalog components holding every required one is executed and scored.
C20_ComplexityWarning ==
    (ReturnedResult /\ NonEmptyBuild) =>
        LET v == Validation
            cs == request.build.components
            emitted == IssuesOfType(v.issues, "insufficient_complexity")
            short == \/ request.level_id = 2 /\ Len(cs) < 3
                     \/ request.level_id = 4 /\ Len(cs) < 4
        IN  /\ Len(emitted) = IF short THEN 1 ELSE 0
            /\ \A k \in 1..Len(emitted) : emitted[k].severity = "warning"
            /\ (/\ short
                /\ IssuesOfType(v.issues, "missing_required_component") = <<>>
                /\ \A i \in 1..Len(cs) : IdRead(cs[i]) \in RegisteredIds) =>
                   /\ v.is_valid
                   /\ Len(computation_graph.nodes) = Len(cs)
                   /\ Scored

(***************************************************************************)
(* core/levels/manager.py: LevelsManager, and the flow of                  *)
(* api/game_endpoints.py: update_progress                                  *)
(***************************************************************************)
\* a plain str stored where a MasteryLevel is expected; it has no .value
PlainStr(s) == [enum |-> "str", value |-> s]

DefinedLevels == 1..4

\* get_level_concepts: the concepts of a defined level, [] otherwise
get_level_concepts(level_id) ==
    CASE level_id = 1 -> <<"neural_networks", "training", "classification">>
      [] level_id = 2 -> <<"deep_networks", "layer_stacking", "tensor_operations">>
      [] level_id = 3 -> <<"linear_models", "weights", "bias", "pattern_recognition">>
      [] level_id = 4 -> <<"integration", "multi_task_learning", "ai_systems">>
      [] OTHER -> <<>>

\* LevelConfig.prerequisites
Prerequisites(level_id) == IF level_id \in 2..4 THEN {level_id - 1} ELSE {}

_is_level_unlocked(level_id, pp) ==
    IF level_id \notin DefinedLevels THEN FALSE
    ELSE IF level_id = 1 THEN TRUE
    ELSE IF \E prereq \in Prerequisites(level_id) : ~DictHas(pp.completed_levels, prereq)
    THEN FALSE
    ELSE ~(level_id - 1 \in DefinedLevels /\ ~DictHas(pp.completed_levels, level_id - 1))

\* sorted list of the unlocked levels, kept as the set of its elements
get_available_levels(pp) == {l \in DefinedLevels : _is_level_unlocked(l, pp)}

\* min(higher_levels) if higher_levels else None
get_next_level(current_level, pp) ==
    LET higher_levels == {l \in get_available_levels(pp) : l > current_level}
    IN  IF higher_levels = {} THEN None
        ELSE Some(CHOOSE l \in higher_levels : \A m \in higher_levels : l <= m)

\* int(time.time()): the clock is not modelled, every record carries "now"
_get_timestamp == "now"

MarkProficientThreshold == 900

MarkLearningThreshold == 700

\* the loop of mark_level_complete from concept i on; score * (1.0 / attempts)
\* raises ZeroDivisionError when attempts = 0, and a negative attempts flips
\* the comparison of the cross-multiplied fraction
RECURSIVE MarkConcepts(_, _, _, _, _)
MarkConcepts(pp, concepts, i, score, attempts) ==
    IF i > Len(concepts) THEN [raised |-> FALSE, progress |-> pp]
    ELSE IF attempts = 0
    THEN [raised |-> TRUE, progress |-> pp, exc |-> "ZeroDivisionError",
          text |-> "float division by zero"]
    ELSE LET AtLeast(threshold) ==
                 IF attempts > 0 THEN score >= threshold * attempts
                 ELSE score <= threshold * attempts
             stored == IF AtLeast(MarkProficientThreshold) THEN PlainStr("proficient")
                       ELSE IF AtLeast(MarkLearningThreshold) THEN PlainStr("learning")
                       ELSE PlainStr("novice")
         IN  MarkConcepts([pp EXCEPT !.concept_mastery = DictSet(@, concepts[i], stored)],
                          concepts, i + 1, score, attempts)

mark_level_complete(level_id, pp, score, time_taken, attempts) ==
    LET level_record == [completed |-> TRUE, score |-> score, time_taken |-> time_taken,
                         attempts |-> attempts, timestamp |-> _get_timestamp]
        recorded == [pp EXCEPT !.completed_levels = DictSet(@, level_id, level_record)]
    IN  MarkConcepts(recorded, get_level_concepts(level_id), 1, score, attempts)

\* update_concept_mastery on a record that may hold plain strings:
\* current_mastery.value at progress.py:36 is only evaluated when
\* mastery_score >= 0.95, and raises AttributeError on a str
RECURSIVE UpdateConcepts(_, _, _, _, _)
UpdateConcepts(pp, concepts, i, score, attempts) ==
    IF i > Len(concepts) THEN [raised |-> FALSE, progress |-> pp]
    ELSE IF /\ ScoreAtLeast(mastery_score_of(score, attempts), ExpertThreshold)
            /\ assess_concept_mastery(pp, concepts[i]).enum # "MasteryLevel"
    THEN [raised |-> TRUE, progress |-> pp, exc |-> "AttributeError",
          text |-> "'str' object has no attribute 'value'"]
    ELSE UpdateConcepts(update_concept_mastery(pp, concepts[i], score, attempts),
                        concepts, i + 1, score, attempts)

\* mastery.value for every stored mastery: AttributeError on a str
SummaryRaises(pp) ==
    \E i \in 1..Len(pp.concept_mastery) : pp.concept_mastery[i].v.enum # "MasteryLevel"

\* [concept for concept, mastery in ...items() if mastery in levels]
ConceptsWhere(pp, levels) ==
    LET kept == SelectSeq(pp.concept_mastery, LAMBDA e : e.v \in levels)
    IN  [i \in 1..Len(kept) |-> kept[i].k]

RECURSIVE SumValues(_, _)
SumValues(d, i) ==
    IF i > Len(d) THEN 0 ELSE _mastery_level_value(d[i].v) + SumValues(d, i + 1)

\* total_score / max_possible_score, kept as a fraction; 0.0 for no concepts
_calculate_overall_progress(pp) ==
    IF pp.concept_mastery = <<>> THEN [num |-> 0, den |-> 1]
    ELSE [num |-> SumValues(pp.concept_mastery, 1), den |-> Len(pp.concept_mastery) * 3]

get_mastery_summary(pp) ==
    [total_concepts |-> Len(pp.concept_mastery),
     mastery_breakdown |->
         [level \in {m.value : m \in MasteryLevel} |->
             Cardinality({i \in 1..Len(pp.concept_mastery) :
                             pp.concept_mastery[i].v.value = level})],
     overall_progress |-> _calculate_overall_progress(pp),
     strong_areas |-> ConceptsWhere(pp, {PROFICIENT, EXPERT}),
     areas_to_improve |-> ConceptsWhere(pp, {NOVICE})]

HttpError(status_code, detail) ==
    [status_code |-> status_code, detail |-> detail]

HttpOk(body) == [status_code |-> 200, body |-> body]

\* update_progress, lines 229-265, on the record the handler works with:
\* the record after the request and the response
update_progress(pp, level_id, score, time_taken, attempts) ==
    LET marked == mark_level_complete(level_id, pp, score, time_taken, attempts)
        Failed(r) == [progress |-> r.progress,
                      response |-> HttpError(500, "Progress update failed: " \o r.text)]
    IN  IF marked.raised THEN Failed(marked)
        ELSE LET updated == UpdateConcepts(marked.progress, get_level_concepts(level_id), 1,
                                           score, attempts)
             IN  IF updated.raised THEN Failed(updated)
                 ELSE IF SummaryRaises(updated.progress)
                 THEN Failed([progress |-> updated.progress,
                              text |-> "'str' object has no attribute 'value'"])
                 ELSE [progress |-> updated.progress,
                       response |->
                           HttpOk([updated_progress |->
                                       [current_level |-> updated.progress.current_level,
                                        completed_levels |->
                                            [i \in 1..Len(updated.progress.completed_levels)
                                                |-> updated.progress.completed_levels[i].k],
                                        available_levels |->
                                            get_available_levels(updated.progress),
                                        next_level |->
                                            get_next_level(level_id, updated.progress)],
                                   mastery_summary |-> get_mastery_summary(updated.progress),
                                   achievements_unlocked |-> <<>>])]

(***************************************************************************)
(* update_progress requests on one learner's record.  The handler builds   *)
(* its PlayerProgress in memory where a stored record is to be loaded; the *)
(* first request of a behaviour works on exactly that fresh record, later  *)
(* requests on the record as the previous request left it.                 *)
(***************************************************************************)
MaxProgressAttempts == 1

ProgressLevels == {1, 2}

ProgressScores == {500, 800, 900, 1000}

ProgressTimes == {30}

InitProgress ==
    /\ MasteryIdle
    /\ RaceIdle
    /\ SimIdle
    /\ HintIdle

UpdateProgress ==
    /\ \E level_id \in ProgressLevels, score \in ProgressScores,
          time_taken \in ProgressTimes, attempts \in 0..MaxProgressAttempts :
           \E r \in {update_progress(player_progress, level_id, score, time_taken, attempts)} :
               /\ player_progress' = r.progress
               /\ call' = [op |-> "update_progress", level_id |-> level_id, score |-> score,
                           time_taken |-> time_taken, attempts |-> attempts,
                           response |-> r.response]
    /\ UNCHANGED <<RaceVars, SimVars, HintVars>>

NextProgress == UpdateProgress

SpecProgress == InitProgress /\ [][NextProgress]_vars

(***************************************************************************)
(* Properties of update_progress                                           *)
(***************************************************************************)
\* C11: for a defined level, a score in [0, 1], time_taken >= 0 and
\* attempts >= 1, update_progress completes without error and returns the
\* updated progress summary, the mastery summary and the next recommended
\* level.
C11_UpdateProgressCompletes ==
    (/\ call.op = "update_progress"
     /\ call.level_id \in DefinedLevels
     /\ call.score \in 0..1000
     /\ call.time_taken >= 0
     /\ call.attempts >= 1) =>
        /\ call.response.status_code = 200
        /\ DOMAIN call.response.body.updated_progress
               = {"current_level", "completed_levels", "available_levels", "next_level"}
        /\ call.response.body.mastery_summary.total_concepts
               = Len(player_progress.concept_mastery)

\* C12: a request that fails leaves the progress record exactly as it was
\* before the request.
C12_FailedUpdateLeavesRecord ==
    [][(call'.op = "update_progress" /\ call'.response.status_code # 200)
          => player_progress' = player_progress]_vars

\* C16: across level completions applied to one record, the stored mastery
\* tier of every concept never decreases.
C16_CompletionNeverLowersMastery ==
    [][\A i \in 1..Len(player_progress.concept_mastery) :
          LET c == player_progress.concept_mastery[i].k
          IN  TierRank(assess_concept_mastery(player_progress', c))
                  >= TierRank(player_progress.concept_mastery[i].v)]_vars

(***************************************************************************)
(* api/game_endpoints.py: simulate_build                                   *)
(***************************************************************************)
\* lines 99-131: what the endpoint delivers for what the engine returned or
\* raised: HTTP 200 with the outcome, HTTP 500 for any exception
SimulationResponse(r) ==
    LET result == r.result
        issues == IF result.validation_result = None THEN <<>>
                  ELSE result.validation_result.issues
    IN  IF r.raised
        THEN HttpError(500, "Simulation failed: " \o r.text)
        ELSE HttpOk([success |-> result.success,
                     score |-> result.score,
                     message |-> result.message,
                     visual_data |-> result.visual_data,
                     educational_feedback |-> result.educational_feedback,
                     validation_issues |->
                         [i \in 1..Len(issues) |->
                             [type |-> issues[i].type,
                              message |-> issues[i].message,
                              severity |-> issues[i].severity,
                              hint |-> issues[i].hint]]])

\* the endpoint has no check of level_id: level_id goes to the engine as it
\* came
api_simulate_build(graph, build, level_id, first) ==
    CHOOSE d \in {[graph |-> r.graph, response |-> SimulationResponse(r.outcome)] :
                      r \in {simulate_build(graph, build, level_id, first)}} : TRUE

MaxApiLen == 2

InitApiSimulate ==
    /\ MasteryIdle
    /\ RaceIdle
    /\ HintIdle
    /\ computation_graph = NewGraph
    /\ request \in {[op |-> "api_simulate_build", build |-> b, level_id |-> l] :
                        b \in BuildsOver(ComponentEntries, MaxApiLen),
                        l \in Levels}
    /\ outcome = NoOutcome

ApiSimulateBuild ==
    /\ outcome = NoOutcome
    /\ \E first \in FirstChoices(request.build, request.level_id) :
           \E r \in {api_simulate_build(computation_graph, request.build,
                                        request.level_id, first)} :
               /\ computation_graph' = r.graph
               /\ outcome' = r.response
    /\ UNCHANGED <<request, MasteryVars, RaceVars, HintVars>>

NextApiSimulate == ApiSimulateBuild

SpecApiSimulate == InitApiSimulate /\ [][NextApiSimulate]_vars

\* C13: a simulate-build request whose level id is not a defined level is
\* answered with a 404 resolution error, never with a simulation outcome
\* under a success status.
C13_UnknownLevelIs404 ==
    (outcome # NoOutcome /\ request.level_id \notin DefinedLevels) =>
        outcome.status_code = 404

(***************************************************************************)
(* core/education/hints.py: analyze_attempt, get_level_introduction_hints; *)
(* api/game_endpoints.py: get_hint                                         *)
(***************************************************************************)
\* issue.component_id or default
IdOr(component_id, default) ==
    IF component_id = None \/ component_id = Some("") THEN default ELSE component_id[1]

\* lines 26-32: the three lists the validation issues give
RECURSIVE IssueLists(_, _)
IssueLists(issues, i) ==
    IF i > Len(issues) THEN [missing |-> <<>>, connections |-> <<>>, gaps |-> <<>>]
    ELSE LET rest == IssueLists(issues, i + 1)
             issue == issues[i]
         IN  IF issue.type = "missing_required_component"
             THEN [rest EXCEPT !.missing = <<IdOr(issue.component_id, "unknown")>> \o @]
             ELSE IF issue.type = "sequence_error"
             THEN [rest EXCEPT !.connections = <<IdOr(issue.component_id, "connection")>> \o @]
             ELSE IF issue.type = "insufficient_complexity"
             THEN [rest EXCEPT !.gaps = <<"complexity">> \o @]
             ELSE rest

\* any(word in comp_id for comp_id in component_ids) over comp.get("id", ""),
\* from component i on: "hit", "miss", or "raise" when an id that is not a
\* string is reached before a hit (TypeError)
RECURSIVE AnyIdHas(_, _, _)
AnyIdHas(word, components, i) ==
    IF i > Len(components) THEN "miss"
    ELSE LET comp_id == GetOr(components[i].id, "")
         IN  IF comp_id.t # "str" THEN "raise"
             ELSE IF StrContains(word, comp_id.s) THEN "hit"
             ELSE AnyIdHas(word, components, i + 1)

\* lines 44-48: the gaps the level's concepts give, from concept i on
RECURSIVE ConceptGaps(_, _, _)
ConceptGaps(concepts, components, i) ==
    IF i > Len(concepts) THEN <<>>
    ELSE LET word == IF concepts[i] = "neural_networks" THEN "neural" ELSE "activation"
             found == AnyIdHas(word, components, 1)
         IN  IF concepts[i] \notin {"neural_networks", "activation"}
             THEN ConceptGaps(concepts, components, i + 1)
             ELSE IF found = "raise" THEN <<"raise">>
             ELSE IF found = "miss"
             THEN <<concepts[i]>> \o ConceptGaps(concepts, components, i + 1)
             ELSE ConceptGaps(concepts, components, i + 1)

analyze_attempt(build, result, level_id, attempt_count, time_spent) ==
    LET lists == IssueLists(result.issues, 1)
        composition == IF Len(build.components) = 0 THEN <<"basic_assembly">>
                       ELSE IF Len(build.components) = 1 THEN <<"network_depth">>
                       ELSE <<>>
        by_concept == ConceptGaps(get_level_concepts(level_id), build.components, 1)
    IN  IF by_concept # <<>> /\ by_concept[Len(by_concept)] = "raise"
        THEN Raised("TypeError", "argument of type 'int' is not iterable")
        ELSE [raised |-> FALSE,
              analysis |-> [HintAnalysis(lists.missing, lists.connections,
                                         lists.gaps \o composition \o by_concept,
                                         attempt_count)
                               EXCEPT !.time_spent = time_spent]]

\* LevelConfig.hints of the defined levels
LevelHints(level_id) ==
    CASE level_id = 1 ->
            <<"Try adding a Neural Layer first to give your AI a brain!",
              "Don't forget the Activation Function - it helps your AI think in complex ways!",
              "Draw at least 3 different shapes to teach your AI properly.",
              "Make sure to include both a Neural Layer AND an Activation Function.">>
      [] level_id = 2 ->
            <<"Start with a Neural Layer as your foundation.",
              "Add a Dense Layer to make your network deeper and smarter.",
              "Don't forget an Activation Function - your network needs non-linearity!",
              "Try adding Dropout to prevent overfitting and improve performance.",
              "You need at least 3 components, but more layers often work better!">>
      [] level_id = 3 ->
            <<"Use tensor operations to transform your input data.",
              "Try combining addition and multiplication to find patterns.",
              "Linear models use weighted combinations - multiplication helps with weighting!",
              "Remember: your AI needs to both process (multiply) and combine (add) information.">>
      [] level_id = 4 ->
            <<"This is a challenge level - you'll need to use everything you've learned!",
              "Build a deep network with multiple layers for better performance.",
              "Include regularization (Dropout) to make your AI more robust.",
              "Use tensor operations to preprocess your data effectively.",
              "Aim for at least 4 components in a well-structured architecture.">>

\* the first two hints of a defined level as concept hints, [] otherwise
get_level_introduction_hints(level_id) ==
    IF level_id \notin DefinedLevels THEN <<>>
    ELSE LET intro == SubSeq(LevelHints(level_id), 1, Min(2, Len(LevelHints(level_id))))
         IN  [i \in 1..Len(intro) |-> Hint(intro[i], "concept", 1, None)]

FallbackHint ==
    Hint("Try experimenting with different components from the library!", "general", 1, None)

HintBody(h) ==
    HttpOk([content |-> h.content, type |-> h.type, difficulty |-> h.difficulty,
            visual_highlight |-> h.visual_highlight])

\* build is None or Some(ComponentBuild); choice: the pick of random.choice
get_hint(level_id, build, attempt_count, time_spent, choice) ==
    LET Failed(text) == HttpError(500, "Hint generation failed: " \o text)
    IN  IF build # None
        THEN LET validation_result == validate_build(build[1], level_id)
             IN  IF validation_result.raised THEN Failed(validation_result.text)
                 ELSE LET analyzed == analyze_attempt(build[1], validation_result, level_id,
                                                      attempt_count, time_spent)
                      IN  IF analyzed.raised THEN Failed(analyzed.text)
                          ELSE HintBody(generate_hint(analyzed.analysis, level_id, 1, choice))
        ELSE LET intro_hints == get_level_introduction_hints(level_id)
             IN  IF intro_hints # <<>> THEN HintBody(intro_hints[1])
                 ELSE HintBody(FallbackHint)

MaxHintBuildLen == 2

InitGetHint ==
    /\ MasteryIdle
    /\ RaceIdle
    /\ SimIdle
    /\ hint_request \in
           {[op |-> "get_hint", level_id |-> l, build |-> b, attempt_count |-> a,
             time_spent |-> 0] :
                l \in Levels,
                b \in {None} \cup {Some(x) : x \in BuildsOver(ComponentEntries, MaxHintBuildLen)},
                a \in (0 - 1)..MaxAttemptCount}
    /\ hint = NoHint

GetHint ==
    /\ hint = NoHint
    /\ \E choice \in 1..Len(Encouragements) :
           hint' = get_hint(hint_request.level_id, hint_request.build,
                            hint_request.attempt_count, hint_request.time_spent, choice)
    /\ UNCHANGED <<hint_request, MasteryVars, RaceVars, SimVars>>

NextGetHint == GetHint

SpecGetHint == InitGetHint /\ [][NextGetHint]_vars

\* C14: get_hint answers every request with exactly one Hint whose type is
\* one of concept, structure, debug, encouragement; when no hint rule fires,
\* a request with no build for a level without introduction hints included,
\* the Hint is the default one, of type encouragement.
C14_AlwaysOneTypedHint ==
    hint # NoHint =>
        /\ hint.status_code = 200
        /\ hint.body.type \in {"concept", "structure", "debug", "encouragement"}
        /\ (hint_request.build = None
            /\ get_level_introduction_hints(hint_request.level_id) = <<>>)
               => hint.body.type = "encouragement"
(***************************************************************************)
(* Difficulty of the hints of generate_hint                                *)
(***************************************************************************)
\* hint_level + attempt_count - 1 of the request, before any clamping
RawDifficulty == hint_request.hint_level + hint_request.analysis.attempt_count - 1

ConceptBranch ==
    /\ hint_request.analysis.missing_components = <<>>
    /\ hint_request.analysis.conceptual_gaps # <<>>

\* C21: the difficulty of every hint of generate_hint is hint level +
\* attempt count - 1 clamped into 1..5, for zero and negative inputs too, and
\* a concept hint is the phrasing at position min(difficulty - 1, length - 1)
\* of the concept's list, a position inside the list for known and unknown
\* concepts.
C21_DifficultyClamped ==
    HintGiven =>
        LET clamped == IF RawDifficulty < 1 THEN 1
                       ELSE IF RawDifficulty > 5 THEN 5 ELSE RawDifficulty
            phrasings == ConceptHints(hint_request.analysis.conceptual_gaps[1])
            position == IF clamped - 1 < Len(phrasings) - 1 THEN clamped - 1
                        ELSE Len(phrasings) - 1
        IN  /\ hint.difficulty = clamped
            /\ hint.difficulty \in 1..5
            /\ ConceptBranch =>
                   /\ position \in 0..(Len(phrasings) - 1)
                   /\ hint.content = phrasings[position + 1]

\* C21 witness: a negative raw difficulty and an unknown concept, answered
\* with difficulty 1 and the single generic phrasing.
C21_Witness ==
    /\ HintGiven
    /\ RawDifficulty < 0
    /\ ConceptBranch
    /\ hint_request.analysis.conceptual_gaps[1] = "complexity"
    /\ hint.difficulty = 1
    /\ hint.content = "Consider the concept of complexity for this level."

\* C21 second case: a raw difficulty above 5 is answered with difficulty 5
\* and the last phrasing of a known concept.
C21_WitnessUpper ==
    /\ HintGiven
    /\ RawDifficulty > 5
    /\ ConceptBranch
    /\ hint_request.analysis.conceptual_gaps[1] = "neural_networks"
    /\ hint.difficulty = 5
(***************************************************************************)
(* One analyze_attempt call, on the validation result of the build, as     *)
(* get_hint makes it                                                       *)
(***************************************************************************)
InitAnalyze ==
    /\ MasteryIdle
    /\ RaceIdle
    /\ SimIdle
    /\ hint_request \in
           {[op |-> "analyze_attempt", level_id |-> l, build |-> b, attempt_count |-> 1,
             time_spent |-> 0] :
                l \in Levels, b \in BuildsOver(ComponentEntries, MaxHintBuildLen)}
    /\ hint = NoHint

AnalyzeAttempt ==
    /\ hint = NoHint
    /\ \E v \in {validate_build(hint_request.build, hint_request.level_id)} :
           hint' = IF v.raised THEN v
                   ELSE analyze_attempt(hint_request.build, v, hint_request.level_id,
                                        hint_request.attempt_count, hint_request.time_spent)
    /\ UNCHANGED <<hint_request, MasteryVars, RaceVars, SimVars>>

NextAnalyze == AnalyzeAttempt

SpecAnalyze == InitAnalyze /\ [][NextAnalyze]_vars

Analyzed == hint # NoHint /\ ~hint.raised

\* some component of the analysed build has an "id" that is a string
\* containing text
SomeIdHas(text) ==
    \E i \in 1..Len(hint_request.build.components) :
        LET comp_id == GetOr(hint_request.build.components[i].id, "")
        IN  comp_id.t = "str" /\ StrContains(text, comp_id.s)

InGaps(concept) ==
    \E k \in 1..Len(hint.analysis.conceptual_gaps) :
        hint.analysis.conceptual_gaps[k] = concept

\* C22: in the analysis analyze_attempt returns, every concept of the level's
\* concept list that no component id of the build contains is one of the
\* conceptual gaps.
C22_ConceptCoverage ==
    Analyzed =>
        \A c \in 1..Len(get_level_concepts(hint_request.level_id)) :
            LET concept == get_level_concepts(hint_request.level_id)[c]
            IN  ~SomeIdHas(concept) => InGaps(concept)
(***************************************************************************)
(* One get_mastery_summary call on a progress record.  The values a record *)
(* holds are the ones its writers store: MasteryLevel members              *)
(* (track_concept_exposure, update_concept_mastery) and the plain strings  *)
(* of mark_level_complete.                                                 *)
(***************************************************************************)
MaxSummaryConcepts == 2

SummaryConcepts == {"neural_networks", "training", "classification"}

StoredValues == MasteryLevel \cup {PlainStr(s) : s \in {"novice", "learning", "proficient"}}

\* the dicts of up to n entries with distinct keys
MasteryDicts(keys, values, n) ==
    {d \in SeqsUpTo([k : keys, v : values], n) :
        \A i, j \in 1..Len(d) : d[i].k = d[j].k => i = j}

InitSummary ==
    /\ player_progress \in
           {[NewPlayerProgress EXCEPT !.concept_mastery = d] :
                d \in MasteryDicts(SummaryConcepts, StoredValues, MaxSummaryConcepts)}
    /\ call = NoCall
    /\ RaceIdle
    /\ SimIdle
    /\ HintIdle

GetMasterySummary ==
    /\ call = NoCall
    /\ call' = [op |-> "get_mastery_summary",
                response |->
                    IF SummaryRaises(player_progress)
                    THEN Raised("AttributeError", "'str' object has no attribute 'value'")
                    ELSE [raised |-> FALSE, summary |-> get_mastery_summary(player_progress)]]
    /\ UNCHANGED <<player_progress, RaceVars, SimVars, HintVars>>

NextSummary == GetMasterySummary

SpecSummary == InitSummary /\ [][NextSummary]_vars

\* the concepts of the record stored at one of the tiers, by tier name
ConceptsAtTier(tiers) ==
    {player_progress.concept_mastery[i].k :
        i \in {j \in 1..Len(player_progress.concept_mastery) :
                  player_progress.concept_mastery[j].v.value \in tiers}}

SeqIsSet(seq, set) == Len(seq) = Cardinality(set) /\ {seq[i] : i \in 1..Len(seq)} = set

\* C23: get_mastery_summary returns, for any progress record, a summary whose
\* per-tier counts sum to the number of tracked concepts, whose overall
\* progress is (sum of tier ordinals) / (3 x concept count), within [0, 1]
\* and 0.0 for no concepts, whose strong list is exactly the proficient and
\* expert concepts and whose weak list is exactly the novice concepts.
C23_SummaryDerivation ==
    call # NoCall =>
        /\ ~call.response.raised
        /\ LET s == call.response.summary
               n == Len(player_progress.concept_mastery)
               ordinals == Cardinality(ConceptsAtTier({"learning"}))
                               + 2 * Cardinality(ConceptsAtTier({"proficient"}))
                               + 3 * Cardinality(ConceptsAtTier({"expert"}))
               counts == s.mastery_breakdown
           IN  /\ s.total_concepts = n
               /\ DOMAIN counts = {"novice", "learning", "proficient", "expert"}
               /\ counts["novice"] + counts["learning"] + counts["proficient"]
                      + counts["expert"] = n
               /\ \A t \in DOMAIN counts : counts[t] = Cardinality(ConceptsAtTier({t}))
               /\ s.overall_progress.den > 0
               /\ s.overall_progress.num >= 0
               /\ s.overall_progress.num <= s.overall_progress.den
               /\ n = 0 => s.overall_progress.num = 0
               /\ n > 0 => s.overall_progress.num * (3 * n) = ordinals * s.overall_progress.den
               /\ SeqIsSet(s.strong_areas, ConceptsAtTier({"proficient", "expert"}))
               /\ SeqIsSet(s.areas_to_improve, ConceptsAtTier({"novice"}))
(***************************************************************************)
(* core/education/progress.py: recommend_review and _sort_by_dependencies, *)
(* one pass of the while loop per step.  The state of a call is kept in    *)
(* call: the dependency table the tracker holds, the list being built and  *)
(* the set of concepts still to place.                                     *)
(***************************************************************************)
\* _load_concept_dependencies: the table as a dict of lists
StaticDependencies ==
    <<[k |-> "deep_networks", v |-> <<"neural_networks">>],
      [k |-> "layer_stacking", v |-> <<"neural_networks", "deep_networks">>],
      [k |-> "activation", v |-> <<"neural_networks">>],
      [k |-> "regularization", v |-> <<"neural_networks", "training">>],
      [k |-> "pattern_recognition", v |-> <<"neural_networks", "training">>],
      [k |-> "linear_models", v |-> <<"neural_networks">>],
      [k |-> "weights", v |-> <<"neural_networks">>],
      [k |-> "bias", v |-> <<"neural_networks", "weights">>]>>

SeqToSet(seq) == {seq[i] : i \in 1..Len(seq)}

\* the concepts of remaining none of whose dependencies is in remaining
ReadyConcepts(concept_dependencies, remaining) ==
    {concept \in remaining :
        ~ \E dep \in SeqToSet(DictGet(concept_dependencies, concept, <<>>)) : dep \in remaining}

\* the orders in which iterating over a set can list its members
IterationOrders(set) ==
    {order \in [1..Cardinality(set) -> set] : SeqToSet(order) = set}

\* the state of _sort_by_dependencies(concepts) at its first loop test
SortCall(op, concept_dependencies, concepts) ==
    [op |-> op, pc |-> "while", concept_dependencies |-> concept_dependencies,
     concepts |-> concepts, sorted_concepts |-> <<>>, remaining |-> SeqToSet(concepts)]

\* lines 51-58: the concepts stored at MasteryLevel.NOVICE, in dict order
Recommendations(pp) == ConceptsWhere(pp, {NOVICE})

InSort == call.op \in {"recommend_review", "_sort_by_dependencies"}

RecommendReview ==
    /\ call = NoCall
    /\ call' = SortCall("recommend_review", StaticDependencies,
                        Recommendations(player_progress))
    /\ UNCHANGED <<player_progress, RaceVars, SimVars, HintVars>>

\* mutant: a pass with no ready concept places nothing
SortPass_no_cycle_break ==
    /\ InSort
    /\ call.pc = "while"
    /\ call.remaining # {}
    /\ \E ready \in IterationOrders(ReadyConcepts(call.concept_dependencies,
                                                   call.remaining)) :
           call' = [call EXCEPT !.sorted_concepts = @ \o ready,
                                !.remaining = @ \ SeqToSet(ready)]
    /\ UNCHANGED <<player_progress, RaceVars, SimVars, HintVars>>

\* lines 113-127: one pass of the loop
SortPass ==
    /\ InSort
    /\ call.pc = "while"
    /\ call.remaining # {}
    /\ \E ready \in (IF ReadyConcepts(call.concept_dependencies, call.remaining) # {}
                     THEN IterationOrders(ReadyConcepts(call.concept_dependencies,
                                                        call.remaining))
                     ELSE {<<concept>> : concept \in call.remaining}) :
           call' = [call EXCEPT !.sorted_concepts = @ \o ready,
                                !.remaining = @ \ SeqToSet(ready)]
    /\ UNCHANGED <<player_progress, RaceVars, SimVars, HintVars>>

\* line 129
SortReturn ==
    /\ InSort
    /\ call.pc = "while"
    /\ call.remaining = {}
    /\ call' = [call EXCEPT !.pc = "returned"]
    /\ UNCHANGED <<player_progress, RaceVars, SimVars, HintVars>>

MaxReviewConcepts == 3

ReviewConcepts == {"neural_networks", "weights", "bias", "training"}

ReviewValues == {NOVICE, LEARNING, PlainStr("novice")}

InitReview ==
    /\ player_progress \in
           {[NewPlayerProgress EXCEPT !.concept_mastery = d] :
                d \in MasteryDicts(ReviewConcepts, ReviewValues, MaxReviewConcepts)}
    /\ call = NoCall
    /\ RaceIdle
    /\ SimIdle
    /\ HintIdle

NextReview == RecommendReview \/ SortPass \/ SortReturn

SpecReview == InitReview /\ [][NextReview]_vars

ReviewReturned == call.op = "recommend_review" /\ call.pc = "returned"

PositionOf(seq, x) == CHOOSE i \in 1..Len(seq) : seq[i] = x

\* C24: recommend_review returns every novice-tier concept of the record
\* exactly once and no other concept, with every returned concept after each
\* of its prerequisites in the static dependency table that is returned too.
C24_ReviewOrder ==
    ReviewReturned =>
        LET returned == call.sorted_concepts
        IN  /\ SeqIsSet(returned, ConceptsAtTier({"novice"}))
            /\ \A i \in 1..Len(returned) :
                   \A dep \in SeqToSet(DictGet(StaticDependencies, returned[i], <<>>)) :
                       dep \in SeqToSet(returned) => PositionOf(returned, dep) < i
(***************************************************************************)
(* _sort_by_dependencies on its own: the list of concepts and the          *)
(* dependency table it reads (self.concept_dependencies) are both inputs,  *)
(* tables with cycles and self-dependencies included.                      *)
(***************************************************************************)
MaxSortConcepts == 2

SortConcepts == {"neural_networks", "weights", "bias"}

\* every table that gives each concept a list of concepts it depends on
DependencyTables ==
    {[i \in 1..3 |-> [k |-> <<"neural_networks", "weights", "bias">>[i],
                      v |-> CHOOSE order \in IterationOrders(deps[i]) : TRUE]] :
        deps \in [1..3 -> SUBSET SortConcepts]}

InitSort ==
    /\ player_progress = NewPlayerProgress
    /\ call \in {SortCall("_sort_by_dependencies", table, concepts) :
                    table \in DependencyTables,
                    concepts \in SeqsUpTo(SortConcepts, MaxSortConcepts)}
    /\ RaceIdle
    /\ SimIdle
    /\ HintIdle

NextSort == SortPass \/ SortReturn

SpecSort == InitSort /\ [][NextSort]_vars

\* the loop runs while remaining is not empty and nothing else delays it
SpecSortLive == SpecSort /\ WF_vars(NextSort)

\* C25: _sort_by_dependencies terminates for every list of concepts and every
\* dependency table, cyclic ones included: each pass of its loop takes at
\* least one concept out of the remaining set, and the call returns once the
\* set is empty, with every concept placed.
C25_SortTerminates ==
    /\ [][(call.pc = "while" /\ call.remaining # {}) =>
              /\ call'.remaining \subseteq call.remaining
              /\ call'.remaining # call.remaining]_vars
    /\ <>(call.pc = "returned" /\ call.remaining = {}
          /\ SeqToSet(call.sorted_concepts) = SeqToSet(call.concepts))

\* C25 witness: weights and bias depend on each other, neither is ever
\* ready, and the call has returned with both placed.
C25_Witness ==
    /\ call.op = "_sort_by_dependencies"
    /\ call.pc = "returned"
    /\ "bias" \in SeqToSet(DictGet(call.concept_dependencies, "weights", <<>>))
    /\ "weights" \in SeqToSet(DictGet(call.concept_dependencies, "bias", <<>>))
    /\ SeqToSet(call.sorted_concepts) = {"weights", "bias"}
(***************************************************************************)
(* Properties of the trace ComputationGraph.execute leaves                 *)
(***************************************************************************)
\* the id simulate_build hands to add_component for the component at
\* position i (counted from 1)
NodeComponent(cs, i) == GetIdOrName(cs[i], "component_" \o ToString(i - 1)).s

\* every component of the build resolves in the catalog and runs on its
\* parameters
AllResolveAndRun(cs) ==
    \A i \in 1..Len(cs) :
        /\ NodeComponent(cs, i) \in RegisteredIds
        /\ NodeComponent(cs, i) \in {"tensor_add", "tensor_multiply"} =>
               "y" \in Parameters(cs[i])

\* the request was a valid build and its graph was executed to the end
ExecutedToEnd ==
    /\ ReturnedResult
    /\ Validation.is_valid
    /\ AllResolveAndRun(request.build.components)

Trace == computation_graph.intermediate_results

\* C26: after a build of n components that all resolve and run is executed,
\* the trace has exactly the keys input, node_0, ..., node_(n-1) in that
\* order; input holds the original array, node_0 the output of component 0
\* on the input and node_i the output of component i on what node_(i-1)
\* recorded.
C26_TraceShape ==
    ExecutedToEnd =>
        LET cs == request.build.components
        IN  /\ Len(Trace) = Len(cs) + 1
            /\ Trace[1] = [k |-> "input", v |-> _generate_input_data(request.level_id)]
            /\ \A i \in 1..Len(cs) :
                   /\ Trace[i + 1].k = "node_" \o ToString(i - 1)
                   /\ Trace[i + 1].v.data = Trace[1].v.data
                   /\ Trace[i + 1].v.applied = Append(Trace[i].v.applied, NodeComponent(cs, i))
                   /\ Trace[i + 1].v =
                          Implementation(NodeComponent(cs, i), Trace[i].v,
                                         Parameters(cs[i])).value

\* C26 witness: three components, one of them taking a parameter, executed
\* to the end and recorded as node_0, node_1, node_2 after input.
C26_Witness ==
    /\ ExecutedToEnd
    /\ Len(request.build.components) = 3
    /\ NodeComponent(request.build.components, 3) = "tensor_add"
    /\ Len(Trace) = 4
    /\ Trace[4].k = "node_2"
    /\ Len(Trace[4].v.applied) = 3
(***************************************************************************)
(* Success flag against the level's threshold                              *)
(***************************************************************************)
\* the pass mark of a level: 0.85, 0.75, 0.9, and 0.8 for any other level
PassMark(level_id) ==
    CASE level_id = 2 -> 850
      [] level_id = 3 -> 750
      [] level_id = 4 -> 900
      [] OTHER -> 800

\* C27: for every valid build whose execution completes the success flag is
\* true exactly when the score is at or above the level's pass mark (0.85 at
\* level 2, 0.75 at level 3, 0.9 at level 4, 0.8 elsewhere), and a true
\* success flag is only ever given to a valid, executed build with such a
\* score.
C27_SuccessIffPassMark ==
    ReturnedResult =>
        /\ ExecutedToEnd =>
               (outcome.result.success <=>
                    outcome.result.score >= PassMark(request.level_id))
        /\ outcome.result.success =>
               /\ ExecutedToEnd
               /\ outcome.result.score >= PassMark(request.level_id)

\* C27 witness: a level-3 build scored exactly at the pass mark succeeds.
C27_Witness ==
    /\ ExecutedToEnd
    /\ request.level_id = 3
    /\ outcome.result.score = 750
    /\ outcome.result.success

\* C27 second case: the four components of the level-4 test reach 0.95 and
\* succeed.
C27_WitnessLevel4 ==
    /\ ExecutedToEnd
    /\ request.level_id = 4
    /\ request.build.components = <<NeuralLayer, ActivationRelu, DenseLayer, Dropout>>
    /\ outcome.result.score = 950
    /\ outcome.result.success

\* C27 third case: a level-4 build below the pass mark is scored and fails.
C27_WitnessBelow ==
    /\ ExecutedToEnd
    /\ request.level_id = 4
    /\ outcome.result.score = 870
    /\ ~outcome.result.success
(***************************************************************************)
(* A long-lived engine, with the graph as the previous request left it     *)
(* kept next to the request that follows                                   *)
(***************************************************************************)
InitExecutor ==
    /\ player_progress = NewPlayerProgress
    /\ call = [op |-> "simulate_build", graph_before |-> NewGraph]
    /\ RaceIdle
    /\ HintIdle
    /\ SimIdle

\* the level only selects the input array and the scoring function
ExecutorLevels == {1, 5}

ExecutorSimulateBuild ==
    /\ \E build \in BuildsOver(EngineEntries, MaxEngineLen), level_id \in ExecutorLevels :
           \E first \in FirstChoices(build, level_id) :
               \E r \in {simulate_build(computation_graph, build, level_id, first)} :
                   /\ request' = [op |-> "simulate_build", build |-> build,
                                  level_id |-> level_id]
                   /\ computation_graph' = r.graph
                   /\ outcome' = r.outcome
    /\ call' = [call EXCEPT !.graph_before = computation_graph]
    /\ UNCHANGED <<player_progress, RaceVars, HintVars>>

NextExecutor == ExecutorSimulateBuild

SpecExecutor == InitExecutor /\ [][NextExecutor]_vars

\* the request was a valid build, so its graph was built and run
ValidExecuted == ReturnedResult /\ Validation.is_valid

\* the ids of the first n components of the build, as given to add_component
RECURSIVE NodeComponents(_, _)
NodeComponents(cs, n) ==
    IF n = 0 THEN <<>> ELSE Append(NodeComponents(cs, n - 1), NodeComponent(cs, n))

\* C28: on an engine serving one simulate_build call after another, whenever
\* a valid build of n components has been executed the node list is exactly
\* node_0..node_(n-1) of that build and the trace is the input entry followed
\* by outputs of that build's own nodes only, whatever graph and trace the
\* earlier calls left.
C28_NoCrossCallState ==
    ValidExecuted =>
        LET cs == request.build.components
        IN  /\ computation_graph.nodes =
                   [i \in 1..Len(cs) |->
                       ComponentNode("node_" \o ToString(i - 1), NodeComponent(cs, i),
                                     Parameters(cs[i]))]
            /\ computation_graph.execution_order =
                   [i \in 1..Len(cs) |-> "node_" \o ToString(i - 1)]
            /\ Len(Trace) \in 1..(Len(cs) + 1)
            /\ Trace[1] = [k |-> "input", v |-> _generate_input_data(request.level_id)]
            /\ \A j \in 2..Len(Trace) :
                   /\ Trace[j].k = "node_" \o ToString(j - 2)
                   /\ Trace[j].v.applied = NodeComponents(cs, j - 1)

\* C28 witness: a valid build of one component was executed on an engine
\* whose previous request had left two nodes and a trace of three entries.
C28_Witness ==
    /\ ValidExecuted
    /\ Len(request.build.components) = 1
    /\ Len(call.graph_before.nodes) = 2
    /\ Len(call.graph_before.intermediate_results) = 3
    /\ Len(computation_graph.nodes) = 1
    /\ Len(Trace) = 2
(***************************************************************************)
(* Builds the validator accepts and the catalog cannot resolve             *)
(***************************************************************************)
\* the positions of the components whose id the catalog does not hold
UnknownPositions(cs) == {i \in 1..Len(cs) : NodeComponent(cs, i) \notin RegisteredIds}

\* the request passed validation and names a component absent from the
\* catalog
ValidWithUnknown ==
    /\ ReturnedResult
    /\ Validation.is_valid
    /\ UnknownPositions(request.build.components) # {}

\* C29: a build that passes validation and holds a component id absent from
\* the catalog never succeeds: simulate_build returns success=false and
\* score 0.0 without scoring the build, and when the executor reaches the
\* unknown component (every component before it resolves and runs) the
\* message carries the resolution failure naming that component.
C29_UnknownComponentFails ==
    ValidWithUnknown =>
        LET cs == request.build.components
            unknown == CHOOSE i \in UnknownPositions(cs) :
                           \A j \in UnknownPositions(cs) : i <= j
        IN  /\ ~outcome.result.success
            /\ outcome.result.score = 0
            /\ outcome.result.visual_data = None
            /\ outcome.result.educational_feedback = <<>>
            /\ ~Scored
            /\ AllResolveAndRun(SubSeq(cs, 1, unknown - 1)) =>
                   /\ outcome.result.message =
                          "Simulation failed: No implementation found for component: "
                              \o NodeComponent(cs, unknown)
                   /\ Len(Trace) = unknown

\* C29 witness: at level 2 the id My_Activation_Layer satisfies the required
\* item activation by substring and is not in the catalog; the build is
\* valid and fails at that component after neural_layer has run.
C29_Witness ==
    /\ ValidWithUnknown
    /\ request.level_id = 2
    /\ request.build.components = <<NeuralLayer, CustomActivation>>
    /\ outcome.result.message =
           "Simulation failed: No implementation found for component: My_Activation_Layer"
    /\ Len(Trace) = 2

(***************************************************************************)
(* Frame of update_concept_mastery                                         *)
(***************************************************************************)
\* the other fields of the progress record
RestOfRecord(pp) ==
    [completed_levels |-> pp.completed_levels,
     current_level |-> pp.current_level,
     total_playtime |-> pp.total_playtime]

\* the mastery map without the entry of one concept, stored order kept
WithoutConcept(pp, concept) ==
    SelectSeq(pp.concept_mastery, LAMBDA e : e.k # concept)

\* C30: update_concept_mastery changes at most the mastery entry of the
\* concept it is given and nothing else in the progress record (other
\* concepts, completed levels, current level, playtime); when the computed
\* tier is not strictly higher than the current one the mastery map is left
\* entirely unchanged, so a concept never seen before whose update computes
\* novice is not added to the map and is not counted by the mastery summary.
C30_UpdateFrame ==
    [][call'.op = "update_concept_mastery" =>
          LET concept == call'.concept
              before == player_progress
              after == player_progress'
              summary == get_mastery_summary(after)
          IN  /\ RestOfRecord(after) = RestOfRecord(before)
              /\ WithoutConcept(after, concept) = WithoutConcept(before, concept)
              /\ TierRank(call'.new_mastery) <= TierRank(call'.current_mastery) =>
                     after.concept_mastery = before.concept_mastery
              /\ (~DictHas(before.concept_mastery, concept) /\ call'.new_mastery = NOVICE) =>
                     /\ ~DictHas(after.concept_mastery, concept)
                     /\ summary.total_concepts = Len(before.concept_mastery)
                     /\ summary.mastery_breakdown = get_mastery_summary(before).mastery_breakdown
                     /\ \A i \in 1..Len(summary.areas_to_improve) :
                            summary.areas_to_improve[i] # concept]_vars

\* an update of a concept not seen before computed novice on a record that
\* already holds another concept, and the map still lacks the concept
C30_Witness ==
    /\ call.op = "update_concept_mastery"
    /\ call.new_mastery = NOVICE
    /\ ~DictHas(player_progress.concept_mastery, call.concept)
    /\ player_progress.concept_mastery # <<>>

\* an update that computed a tier strictly higher wrote only its own entry
C30_WitnessWrite ==
    /\ call.op = "update_concept_mastery"
    /\ TierRank(call.new_mastery) > TierRank(call.current_mastery)
    /\ Len(player_progress.concept_mastery) = 2
    /\ assess_concept_mastery(player_progress, call.concept) = call.new_mastery

====
